---- MODULE Spec2Model ----
(***************************************************************************)
(* One sender/receiver session of WebRTCManager (lib/webrtc.ts, current    *)
(* revision = the first class in src/unnamed/part_011) together with the   *)
(* share-record POST that precedes it (src/src/app/api/share/route.ts).    *)
(*                                                                         *)
(* JavaScript runs handlers to completion; a handler or the chunk pump     *)
(* gives up control only at an await that really suspends.  Each action    *)
(* below is one such run-to-completion step.                               *)
(*                                                                         *)
(* Byte counts are scaled: the source uses chunkSize = 64 KiB and          *)
(* maxBufferedAmount = 16 MiB; the model keeps their roles with small      *)
(* numbers so that the backpressure branch is reached with a few chunks.   *)
(* Progress values are exact rationals <<num, den>>.                       *)
(*                                                                         *)
(* Spec is the transfer session over the data channel.  SigSpec is the     *)
(* signaling that precedes it: the mailbox server (api/signal/route.ts),   *)
(* the sender page's poll loop (src/unnamed/part_007) and the receiver     *)
(* page's answer and candidate poll (src/unnamed/part_008).  Both run on   *)
(* the same variables; each leaves the other's part untouched.             *)
(* ApiSpec is the two API routes on their own, with a clock: the share     *)
(* store with its 15-minute expiry (api/share/route.ts, in-memory map per  *)
(* server instance plus the shared KV) and the signal mailbox with its     *)
(* one-hour clean-up timers.  Times are scaled to ticks.                   *)
(***************************************************************************)
EXTENDS Integers, Sequences, FiniteSets, TLC

\* ---- bounds -------------------------------------------------------------
MaxFileSize == 6        \* file sizes 0..MaxFileSize bytes
ChunkSize == 2          \* scaled this.chunkSize
MaxBufferedAmount == 6  \* scaled this.maxBufferedAmount
MetaLen == 1            \* scaled byte length of the JSON metadata message
MaxIceFailures == 2     \* cap on iceFailureCount (maxRetries + 1)
MaxCandidates == 1      \* ICE candidates gathered by each peer
MaxPolls == 3           \* cap on pollCount / attempts of the poll loops
ExpiryTicks == 2        \* scaled EXPIRY_TIME / KV_TTL_SECONDS (15 minutes)
HourTicks == ExpiryTicks + 1  \* scaled 3600000 ms of the signal clean-up timer
MaxTime == HourTicks    \* the clock runs from 0 to MaxTime ticks
MaxShares == 1          \* share records created
MaxMail == 2            \* envelopes posted to the timed mailbox
NumInstances == 2       \* server instances behind the share route
MaxNameParts == 4       \* parts a file name is built from
PairChunks == 2         \* chunks of a file in the models of several pumps
MaxAnswers == 2         \* answer signals handed to the sender page
MaxStatsCalls == 3      \* POSTs to /api/stats
FeedbackChunks == 101   \* chunks of a file in the model of the progress feedback

\* ---- program constants ---------------------------------------------------
maxRetries == 1

TransferId == "t1"

\* the receiver's connectionId
ConnectionId == "c1"

\* the ids of two transfers created in the same manager
Transfers == {TransferId, "t2"}

VARIABLES
  fileSize,             \* transfer.file.size (input)
  flagged,              \* securityWarning && this.onReceiverSecurityWarning (input)
  share,                \* outcome of POST /api/share: "none" | "created" | "rejected"
  sStatus,              \* sender transfer.status
  sConn,                \* sender connection.status
  sProgress,            \* sender transfer.progress
  sConfirmed,           \* history: sender has handled a progress-sync with chunksReceived = totalChunks
  transferPaused,       \* this.transferPaused
  pausedTransferId,     \* this.pausedTransferId
  iceState,             \* pc.iceConnectionState (sender)
  iceFailureCount,      \* closure variable of createSender
  sChan,                \* sender dataChannel: "new" | "open" | "closing" | "closed"
  spc,                  \* position of startFileSending
  offset,               \* startFileSending: offset
  chunksSent,           \* startFileSending: chunksSent
  totalChunks,          \* metadata.chunks
  sendBuf,              \* messages queued in the sender's channel (bufferedAmount)
  s2r,                  \* messages in flight sender -> receiver
  r2s,                  \* messages in flight receiver -> sender
  rChan,                \* receiver dataChannel: "open" | "closed"
  rpc,                  \* position of the receiver's metadata handler
  receivedFile,         \* receivedFile # null
  expectedChunks,
  chunksReceived,
  bytesReceived,
  receivedChunks,
  transferPendingApproval,
  pendingChunksBuffer,
  lastFeedbackVal,      \* pc.__lastProgressFeedbackVal
  rTransfers,           \* receiver-side this.transfers (insertion order)
  rConn,                \* receiver connection.status
  registered,           \* sender: the transfer and its connection are in this.transfers / this.connections
  chunkWorker,          \* this.chunkWorker: "alive" | "null"
  pendingChunks,        \* keys of this.pendingChunks
  retried,              \* history: the ICE handler has taken its retry branch
  signals,              \* api/signal: Map receiverId -> SignalingMessage[]
  posts,                \* POST /api/signal requests under way
  delivered,            \* history: how often a GET has returned each envelope
  isPolling,            \* startSignalingPolling: isPolling
  sPoll,                \* sender poll loop: "idle" | "requested" | "scheduled" | "stopped"
  pollCount,            \* startSignalingPolling: pollCount
  sTimer,               \* sender's 5-minute timer: "off" | "armed" | "fired"
  icePolling,           \* receiver page: icePolling
  rPoll,                \* receiver poll loop: "idle" | "requested" | "scheduled" | "stopped"
  attempts,             \* receiver page: attempts
  rTimer,               \* receiver's 5-minute timer
  rStage,               \* receiver page: position of proceedWithDownload
  remoteDescription,    \* sender pc.remoteDescription # null
  remotePeerId,         \* remotePeerIdForTransfer.has(transferId)
  pendingLocalCandidates, \* pendingLocalCandidates.get(transferId)
  sCandidates,          \* number of candidates the sender's pc has gathered
  rCandidates,          \* number of candidates the receiver's pc has gathered
  sDrained,             \* history: candidates the sender took from its mailbox
  sApplied,             \* candidates added to the sender's pc
  rApplied,             \* candidates added to the receiver's pc
  now,                  \* Date.now() in ticks
  kvConfigured,         \* kv # null (UPSTASH_* environment set)
  transferStore,        \* api/share: transferStore of each server instance
  kvStore,              \* the KV backend: short id -> [value, expiresAt]
  issued,               \* history: the record posted under each short id, as last modified by PUT
  resp,                 \* the last API response
  cleanupTimers,        \* api/signal: pending one-hour timers [id, at]
  unread,               \* history: envelopes posted and not yet returned by a GET
  mailCount,            \* number of envelopes posted to the timed mailbox
  heldPinHash,          \* receiver page: window.transferData.pinHash ("" = none)
  heldId,               \* receiver page: short id of the record fetched (0 = not fetched by a modelled request)
  pinInput,             \* receiver page: pinInput
  pinError,             \* receiver page: pinError
  pinValid,             \* receiver page: pinValid
  fileName,             \* security advisor: file.name, a sequence of characters
  advisory,             \* security advisor: result of checkFile, "unchecked" before
  pollFailure,          \* history: the page whose last poll failed, "none" otherwise
  timedOut,             \* history: a chunk's worker timer has fired with the chunk pending
  pumpOf,               \* two transfers in one manager: position of each startFileSending
  sentOf,               \* two transfers: chunksSent of each pump
  statusOf,             \* two transfers: transfer.status of each
  ctlOf,                \* two transfers: control messages in flight to the sender, per channel
  approvalOf,           \* two transfers: each receiver's approval state
  holdOf,               \* history: transfer-pause handled for the transfer and no transfer-resume since
  signalingState,       \* sender pc.signalingState
  srd,                  \* handleAnswer: "idle" | "pending" (awaiting setRemoteDescription)
  answersLeft,          \* answer signals the sender page will still be handed
  pumps,                \* chunksSent of every startFileSending run started, in start order
  metaSends,            \* history: metadata messages handed to the channel
  chunkSends,           \* history: how often each chunk index was handed to the channel
  postsFail,            \* environment: POSTs to /api/signal may fail
  candPosts,            \* history: POSTs the server accepted for each candidate of the sender
  answerRejected,       \* history: the error of the last handleAnswer call that threw, "none" before
  memTotal,             \* stats: InMemoryStatsStore.total
  kvTotal,              \* stats: the counter wizzit:stats:total_completed in the KV backend
  statsResp,            \* stats: the last response of /api/stats
  statPosts,            \* history: accepted POSTs to /api/stats per transferId
  statsCalls            \* POSTs to /api/stats so far

\* signaling: mailbox server, poll loops, negotiation state
sigVars == <<signals, posts, delivered, isPolling, sPoll, pollCount, sTimer,
             icePolling, rPoll, attempts, rTimer, rStage, remoteDescription,
             remotePeerId, pendingLocalCandidates, sCandidates, rCandidates,
             sDrained, sApplied, rApplied,
             pollFailure>>

\* the API routes seen on their own
apiVars == <<now, kvConfigured, transferStore, kvStore, issued, resp,
             cleanupTimers, unread, mailCount>>

\* the receiver page's PIN gate
joinVars == <<heldPinHash, pinInput, pinError, pinValid, heldId>>

\* the security advisor
advVars == <<fileName, advisory>>

\* forwarding of the sender's candidates
candVars == <<postsFail, candPosts>>

statVars == <<memTotal, kvTotal, statsResp, statPosts, statsCalls>>

\* answer processing and the start of the pump
answerVars == <<signalingState, srd, answersLeft, pumps, metaSends,
                chunkSends, answerRejected>>

\* two sender transfers in one manager
pairVars == <<pumpOf, sentOf, statusOf, ctlOf, approvalOf, holdOf>>

\* the parts that the transfer session leaves alone besides the API routes
\* and the PIN gate
sideVars == <<advVars, pairVars, answerVars, candVars, statVars>>

vars == <<fileSize, flagged, share, sStatus, sConn, sProgress, sConfirmed,
          transferPaused, pausedTransferId, iceState, iceFailureCount, sChan,
          spc, offset, chunksSent, totalChunks, sendBuf, s2r, r2s, rChan, rpc,
          receivedFile, expectedChunks, chunksReceived, bytesReceived,
          receivedChunks, transferPendingApproval, pendingChunksBuffer,
          lastFeedbackVal, rTransfers, rConn, registered, chunkWorker,
          pendingChunks, retried, sigVars, apiVars, joinVars, sideVars,
          timedOut>>

\* manager-wide state of the sender's WebRTCManager
mgrVars == <<registered, chunkWorker, pendingChunks>>

senderVars == <<sStatus, sConn, sProgress, sConfirmed, transferPaused,
                pausedTransferId, iceState, iceFailureCount, sChan, spc,
                offset, chunksSent, totalChunks, sendBuf>>

receiverVars == <<rChan, rpc, receivedFile, expectedChunks, chunksReceived,
                  bytesReceived, receivedChunks, transferPendingApproval,
                  pendingChunksBuffer, lastFeedbackVal, rTransfers, rConn>>

\* ---- helpers ---------------------------------------------------------------
Max2(a, b) == IF a >= b THEN a ELSE b

Min2(a, b) == IF a <= b THEN a ELSE b

\* progress values: <<num, den>> stands for num/den
Zero == <<0, 1>>

Hundred == <<100, 1>>

LeqPct(p, q) == p[1] * q[2] <= q[1] * p[2]

LtPct(p, q) == p[1] * q[2] < q[1] * p[2]

\* Math.min(progress, 100)
MinHundred(p) == IF LtPct(p, Hundred) THEN p ELSE Hundred

\* (chunksReceived / expectedChunks) * 100
Pct(k, n) == <<100 * k, n>>

\* |p - q| >= 1
AbsDiffGeqOne(p, q) ==
  LET d == p[1] * q[2] - q[1] * p[2]
      a == IF d >= 0 THEN d ELSE 0 - d
  IN a >= p[2] * q[2]

\* Math.ceil(size / chunkSize)
CeilDiv(n, c) == (n + c - 1) \div c

RECURSIVE SumLen(_)
SumLen(s) == IF s = <<>> THEN 0 ELSE Head(s).len + SumLen(Tail(s))

\* dataChannel.bufferedAmount
BufferedAmount == SumLen(sendBuf)

\* Math.floor(this.maxBufferedAmount / 2)
lowThreshold == MaxBufferedAmount \div 2

\* messages on the channel
Msg(t, a, b, l, p) == [type |-> t, a |-> a, b |-> b, len |-> l, progress |-> p]

\* file.slice(offset, offset + chunkSize).size
SliceLen(off) == Min2(ChunkSize, fileSize - off)

\* receivedChunks entries
Hole == [idx |-> 0 - 1, len |-> 0]

Chunk(i, l) == [idx |-> i, len |-> l]

\* new Array(n)
NewArray(n) == [k \in 1..n |-> Hole]

\* arr[i] = v (0-based, extends the array with holes)
SetAt(arr, i, v) ==
  [k \in 1..Max2(Len(arr), i + 1) |->
     IF k = i + 1 THEN v ELSE IF k <= Len(arr) THEN arr[k] ELSE Hole]

IsChunk(c) == c # Hole

\* new Blob(receivedChunks.filter(chunk => chunk))
Blob(arr) == SelectSeq(arr, IsChunk)

\* the chunks of the file the sender holds, in order
FileChunks(n) ==
  [k \in 1..CeilDiv(n, ChunkSize) |->
     Chunk(k - 1, Min2(ChunkSize, n - (k - 1) * ChunkSize))]

\* ---- initial state ---------------------------------------------------------
\* signaling envelopes: { type, senderId, receiverId, data }; n numbers the
\* candidates of one peer
Envelope(t, from, to, n) == [type |-> t, senderId |-> from, receiverId |-> to, n |-> n]

Envelopes ==
  {Envelope("answer", ConnectionId, TransferId, 0),
   Envelope("peer-info", ConnectionId, TransferId, 0)}
  \cup {Envelope("ice-candidate", ConnectionId, TransferId, n) : n \in 1..MaxCandidates}
  \cup {Envelope("ice-candidate", TransferId, ConnectionId, n) : n \in 1..MaxCandidates}

\* an absent value (undefined / null / no entry)
None == [none |-> TRUE]

\* server instances; without KV there is nothing to keep instances
\* consistent, and the deployment is the single process
Instances == 1..NumInstances

\* short ids: those that can be issued and one more that never is
ShortIds == 1..(MaxShares + 1)

\* API responses: route and method, id asked for, outcome, body, whether the
\* request carried all required fields, and the time of the response
Response(op, id, status, body, valid) ==
  [op |-> op, id |-> id, status |-> status, body |-> body, valid |-> valid,
   at |-> now]

\* responses of /api/stats: {success, counted} of POST, {total} of GET
StatsResponse(op, status, counted, total) ==
  [op |-> op, status |-> status, counted |-> counted, total |-> total]

\* Both pages have constructed their WebRTCManager (worker started); no file
\* is selected yet.  The receiver's per-channel closure variables have their
\* ondatachannel values.  The servers' stores are empty.
Constructed ==
  /\ share = "none"
  /\ sStatus = "none"
  /\ sConn = "none"
  /\ sProgress = Zero
  /\ sConfirmed = FALSE
  /\ transferPaused = FALSE
  /\ pausedTransferId = "null"
  /\ iceState = "new"
  /\ iceFailureCount = 0
  /\ sChan = "new"
  /\ spc = "idle"
  /\ offset = 0
  /\ chunksSent = 0
  /\ totalChunks = 0
  /\ sendBuf = <<>>
  /\ s2r = <<>>
  /\ r2s = <<>>
  /\ rChan = "new"
  /\ rConn = "connecting"
  /\ registered = FALSE
  /\ chunkWorker = "alive"
  /\ pendingChunks = {}
  /\ retried = FALSE
  /\ signals = [id \in {TransferId, ConnectionId} |-> <<>>]
  /\ posts = {}
  /\ delivered = [e \in Envelopes |-> 0]
  /\ isPolling = FALSE
  /\ sPoll = "idle"
  /\ pollCount = 0
  /\ sTimer = "off"
  /\ icePolling = FALSE
  /\ rPoll = "idle"
  /\ attempts = 0
  /\ rTimer = "off"
  /\ rStage = "none"
  /\ remoteDescription = FALSE
  /\ remotePeerId = FALSE
  /\ pendingLocalCandidates = {}
  /\ sCandidates = 0
  /\ rCandidates = 0
  /\ sDrained = {}
  /\ sApplied = {}
  /\ rApplied = {}
  /\ now = 0
  /\ transferStore = [i \in Instances |-> [id \in ShortIds |-> None]]
  /\ kvStore = [id \in ShortIds |-> None]
  /\ issued = [id \in ShortIds |-> None]
  /\ resp = Response("none", 0, "none", None, TRUE)
  /\ cleanupTimers = {}
  /\ unread = {}
  /\ mailCount = 0
  /\ pinInput = ""
  /\ heldId = 0
  /\ pinError = ""
  /\ pinValid = FALSE
  /\ advisory = "unchecked"
  /\ pollFailure = "none"
  /\ timedOut = FALSE
  /\ pumpOf = [t \in Transfers |-> "idle"]
  /\ sentOf = [t \in Transfers |-> 0]
  /\ statusOf = [t \in Transfers |-> "none"]
  /\ ctlOf = [t \in Transfers |-> <<>>]
  /\ approvalOf = [t \in Transfers |-> "none"]
  /\ holdOf = [t \in Transfers |-> FALSE]
  /\ signalingState = "have-local-offer"
  /\ srd = "idle"
  /\ answersLeft = MaxAnswers
  /\ pumps = <<>>
  /\ metaSends = 0
  /\ chunkSends = [k \in 0..(PairChunks - 1) |-> 0]
  /\ answerRejected = "none"
  /\ candPosts = [n \in 1..MaxCandidates |-> 0]
  /\ memTotal = 0
  /\ kvTotal = 0
  /\ statsResp = StatsResponse("none", "none", FALSE, 0)
  /\ statPosts = [t \in Transfers |-> 0]
  /\ statsCalls = 0
  /\ rpc = "idle"
  /\ receivedFile = FALSE
  /\ expectedChunks = 0
  /\ chunksReceived = 0
  /\ bytesReceived = 0
  /\ receivedChunks = <<>>
  /\ transferPendingApproval = FALSE
  /\ pendingChunksBuffer = <<>>
  /\ lastFeedbackVal = Zero
  /\ rTransfers = <<>>

\* the deployment has the KV backend configured; the share record carries
\* no pinHash
Init ==
  /\ Constructed /\ kvConfigured = TRUE /\ postsFail = FALSE /\ heldPinHash = "" /\ fileName = <<>>
  /\ fileSize \in 0..MaxFileSize
  /\ flagged \in BOOLEAN

\* ---- share record ------------------------------------------------------------
\* POST /api/share: "Missing required fields" when a field is falsy.
\* transferId, offer and fileName are non-empty strings; fileSize is a number.
RequiredFieldsPresent(size) == size # 0

\* The page posts the share record after createSender; signaling polling (and
\* with it the answer and the channel) starts only when the POST succeeded.
SharePost ==
  /\ share = "none"
  /\ sStatus # "none"
  /\ share' = IF RequiredFieldsPresent(fileSize) THEN "created" ELSE "rejected"
  /\ UNCHANGED <<timedOut, sideVars, joinVars, apiVars, sigVars, mgrVars, retried, fileSize, flagged, s2r, r2s>>
  /\ UNCHANGED senderVars
  /\ UNCHANGED receiverVars

\* ---- sender: chunk pump (startFileSending) -----------------------------------
PumpAt(pc, st, prog) == [pc |-> pc, status |-> st, progress |-> prog]

\* faulty variant of DrainCheck: completes without waiting for the drain
DrainCheckNoWait(st, prog, buf) == PumpAt("done", "completed", Hundred)

\* while (dataChannel.bufferedAmount > 0) await wait(...); then complete
DrainCheck(st, prog, buf) ==
  IF buf > 0 THEN PumpAt("drain", st, prog)
  ELSE PumpAt("done", "completed", Hundred)

\* body of the while loop up to the first await that suspends
PauseCheck(st, prog, buf) ==
  IF transferPaused /\ pausedTransferId = TransferId THEN PumpAt("paused", st, prog)
  ELSE IF registered /\ st \in {"cancelled", "failed"} THEN PumpAt("stopped", st, prog)
  ELSE IF buf > MaxBufferedAmount THEN PumpAt("waitBuf1", st, prog)
  ELSE PumpAt("encode", st, prog)

\* while (offset < transfer.file.size) ...
LoopHead(off, st, prog, buf) ==
  IF off < fileSize THEN PauseCheck(st, prog, buf) ELSE DrainCheck(st, prog, buf)

\* faulty variant of NeedsWait: never waits before sending
NeedsWaitNever(buf, len) == FALSE

\* sendWithBackpressure: "Prevent overshoot"
NeedsWait(buf, len) == buf + len > MaxBufferedAmount

\* dataChannel.send(payload); chunksSent++; offset += chunk.size; next iteration.
\* send throws on a channel that is not open; the catch marks the transfer failed.
DoSend ==
  LET len == SliceLen(offset) IN
  IF sChan # "open"
  THEN /\ sStatus' = "failed"
       /\ spc' = "stopped"
       /\ UNCHANGED <<sProgress, sendBuf, chunksSent, offset>>
  ELSE LET r == LoopHead(offset + len, sStatus, sProgress, BufferedAmount + len) IN
       /\ sendBuf' = Append(sendBuf, Msg("chunk", chunksSent, 0, len, Zero))
       /\ chunksSent' = chunksSent + 1
       /\ offset' = offset + len
       /\ spc' = r.pc
       /\ sStatus' = r.status
       /\ sProgress' = r.progress

\* processChunkInWorker with a live worker, called when the pump comes to
\* its next chunk: this.pendingChunks.set(chunkIndex, ...), postMessage and
\* the 5-second timer
Posted(pending) ==
  IF spc' = "encode" /\ chunkWorker = "alive"
  THEN pending \cup {chunksSent'} ELSE pending

\* dataChannel.onopen: connection connected, transfer connecting, then
\* startFileSending runs synchronously up to its first suspending await.
SenderOnOpen ==
  /\ sChan = "new"
  /\ share = "created"
  /\ iceState = "connected"
  /\ sChan' = "open"
  /\ sConn' = "connected"
  /\ totalChunks' = CeilDiv(fileSize, ChunkSize)
  /\ sendBuf' = <<Msg("metadata", CeilDiv(fileSize, ChunkSize), fileSize, MetaLen, Zero)>>
  /\ LET r == LoopHead(0, "transferring", sProgress, MetaLen) IN
       /\ spc' = r.pc
       /\ sStatus' = r.status
       /\ sProgress' = r.progress
  /\ UNCHANGED <<timedOut, sideVars, joinVars, apiVars, sigVars, registered, chunkWorker, retried, fileSize, flagged, share, sConfirmed, transferPaused,
                 pausedTransferId, iceState, iceFailureCount, offset,
                 chunksSent, s2r, r2s>>
  /\ UNCHANGED receiverVars
  /\ pendingChunks' = Posted(pendingChunks)

\* wait(100) returns and the pause flag is clear
PauseWake ==
  /\ spc = "paused"
  /\ ~(transferPaused /\ pausedTransferId = TransferId)
  /\ LET r == PauseCheck(sStatus, sProgress, BufferedAmount) IN
       /\ spc' = r.pc
       /\ sStatus' = r.status
       /\ sProgress' = r.progress
  /\ UNCHANGED <<timedOut, sideVars, joinVars, apiVars, sigVars, registered, chunkWorker, retried, fileSize, flagged, share, sConn, sConfirmed, transferPaused,
                 pausedTransferId, iceState, iceFailureCount, sChan, offset,
                 chunksSent, totalChunks, sendBuf, s2r, r2s>>
  /\ UNCHANGED receiverVars
  /\ pendingChunks' = Posted(pendingChunks)

\* the await of processChunkInWorker settles: resolved with the bytes, then
\* sendWithBackpressure; or rejected, and the catch marks the transfer failed
ChunkSettled(ok) ==
  IF ~ok
  THEN /\ sStatus' = "failed"
       /\ spc' = "stopped"
       /\ UNCHANGED <<sProgress, sendBuf, chunksSent, offset>>
  ELSE IF NeedsWait(BufferedAmount, SliceLen(offset))
  THEN /\ spc' = "waitBuf2"
       /\ UNCHANGED <<sStatus, sProgress, sendBuf, chunksSent, offset>>
  ELSE DoSend

\* processChunkInWorker without a worker: fileSlice.arrayBuffer() on the
\* main thread settles
EncodeDone ==
  /\ spc = "encode"
  /\ chunksSent \notin pendingChunks
  /\ \E ok \in BOOLEAN : ChunkSettled(ok)
  /\ UNCHANGED <<timedOut, sideVars, joinVars, apiVars, sigVars, registered, chunkWorker, retried, fileSize, flagged, share, sConn, sConfirmed, transferPaused,
                 pausedTransferId, iceState, iceFailureCount, sChan,
                 totalChunks, s2r, r2s>>
  /\ UNCHANGED receiverVars
  /\ pendingChunks' = Posted(pendingChunks)

\* chunkWorker.onmessage: CHUNK_READY resolves the pending chunk, CHUNK_ERROR
\* rejects it
WorkerAnswers ==
  /\ spc = "encode"
  /\ chunkWorker = "alive"
  /\ chunksSent \in pendingChunks
  /\ \E ok \in BOOLEAN : ChunkSettled(ok)
  /\ pendingChunks' = Posted(pendingChunks \ {chunksSent})
  /\ UNCHANGED <<timedOut, sideVars, joinVars, apiVars, sigVars, registered, chunkWorker,
                 retried, fileSize, flagged, share, sConn, sConfirmed,
                 transferPaused, pausedTransferId, iceState, iceFailureCount,
                 sChan, totalChunks, s2r, r2s>>
  /\ UNCHANGED receiverVars

\* the 5000 ms timer of processChunkInWorker fires with the chunk still
\* pending: the entry is deleted and the promise rejected ('Worker timeout')
WorkerTimeout ==
  /\ spc = "encode"
  /\ chunksSent \in pendingChunks
  /\ ChunkSettled(FALSE)
  /\ pendingChunks' = pendingChunks \ {chunksSent}
  /\ timedOut' = TRUE
  /\ UNCHANGED <<sideVars, joinVars, apiVars, sigVars, registered, chunkWorker,
                 retried, fileSize, flagged, share, sConn, sConfirmed,
                 transferPaused, pausedTransferId, iceState, iceFailureCount,
                 sChan, totalChunks, s2r, r2s>>
  /\ UNCHANGED receiverVars

\* chunkWorker.onerror: this.chunkWorker = null
WorkerError ==
  /\ chunkWorker = "alive"
  /\ chunkWorker' = "null"
  /\ UNCHANGED <<timedOut, sideVars, joinVars, apiVars, sigVars, registered, pendingChunks,
                 retried, fileSize, flagged, share, s2r, r2s>>
  /\ UNCHANGED senderVars
  /\ UNCHANGED receiverVars

\* createSender on a manager whose worker runs (no cleanup() before it)
CreateSender ==
  /\ sStatus = "none"
  /\ registered' = TRUE
  /\ sStatus' = "pending"
  /\ sConn' = "connecting"
  /\ UNCHANGED <<timedOut, sideVars, joinVars, apiVars, sigVars, chunkWorker,
                 pendingChunks, retried, fileSize, flagged, share, sProgress,
                 sConfirmed, transferPaused, pausedTransferId, iceState,
                 iceFailureCount, sChan, spc, offset, chunksSent, totalChunks,
                 sendBuf, s2r, r2s>>
  /\ UNCHANGED receiverVars

\* waitForBufferedAmountBelow(lowThreshold) resolves
BufferedAmountLow ==
  /\ spc \in {"waitBuf1", "waitBuf2"}
  /\ BufferedAmount <= lowThreshold
  /\ IF spc = "waitBuf1"
     THEN /\ spc' = "encode"
          /\ UNCHANGED <<sStatus, sProgress, sendBuf, chunksSent, offset>>
     ELSE DoSend
  /\ UNCHANGED <<timedOut, sideVars, joinVars, apiVars, sigVars, registered, chunkWorker, retried, fileSize, flagged, share, sConn, sConfirmed, transferPaused,
                 pausedTransferId, iceState, iceFailureCount, sChan,
                 totalChunks, s2r, r2s>>
  /\ UNCHANGED receiverVars
  /\ pendingChunks' = Posted(pendingChunks)

\* the drain loop sees bufferedAmount = 0: progress 100, status completed
DrainDone ==
  /\ spc = "drain"
  /\ BufferedAmount = 0
  /\ LET r == DrainCheck(sStatus, sProgress, BufferedAmount) IN
       /\ spc' = r.pc
       /\ sStatus' = r.status
       /\ sProgress' = r.progress
  /\ UNCHANGED <<timedOut, sideVars, joinVars, apiVars, sigVars, mgrVars, retried, fileSize, flagged, share, sConn, sConfirmed, transferPaused,
                 pausedTransferId, iceState, iceFailureCount, sChan, offset,
                 chunksSent, totalChunks, sendBuf, s2r, r2s>>
  /\ UNCHANGED receiverVars

\* the transport takes the oldest queued message off the sender's buffer;
\* a receiving channel that is no longer open delivers nothing
Transmit ==
  /\ sChan = "open"
  /\ sendBuf # <<>>
  /\ sendBuf' = Tail(sendBuf)
  /\ s2r' = IF rChan \in {"closing", "closed"} THEN <<>>
            ELSE Append(s2r, Head(sendBuf))
  /\ UNCHANGED <<timedOut, sideVars, joinVars, apiVars, sigVars, mgrVars, retried, fileSize, flagged, share, sStatus, sConn, sProgress,
                 sConfirmed, transferPaused, pausedTransferId, iceState,
                 iceFailureCount, sChan, spc, offset, chunksSent, totalChunks,
                 r2s>>
  /\ UNCHANGED receiverVars

\* ---- sender: event handlers ---------------------------------------------------
\* dataChannel.onmessage (createSender); the receiver's close() reaches the
\* sender in order behind the messages sent before it.
SenderOnMessage ==
  /\ sChan = "open"
  /\ r2s # <<>>
  /\ LET m == Head(r2s) IN
       /\ r2s' = Tail(r2s)
       /\ sProgress' = IF m.type = "progress-sync" THEN MinHundred(m.progress)
                       ELSE sProgress
       /\ sConfirmed' = (sConfirmed \/ (m.type = "progress-sync" /\ m.a = m.b))
       /\ sStatus' = CASE m.type = "transfer-pause" -> "pending-approval"
                       [] m.type = "transfer-resume" ->
                            IF sStatus = "pending-approval" THEN "transferring"
                            ELSE sStatus
                       [] m.type = "transfer-cancel" -> "cancelled"
                       [] OTHER -> sStatus
       /\ transferPaused' = CASE m.type = "transfer-pause" -> TRUE
                              [] m.type = "transfer-resume" -> FALSE
                              [] OTHER -> transferPaused
       /\ pausedTransferId' = CASE m.type = "transfer-pause" -> TransferId
                                [] m.type = "transfer-resume" -> "null"
                                [] OTHER -> pausedTransferId
       /\ sChan' = IF m.type = "close" THEN "closing" ELSE sChan
  /\ UNCHANGED <<timedOut, sideVars, joinVars, apiVars, sigVars, mgrVars, retried, fileSize, flagged, share, sConn, iceState, iceFailureCount,
                 spc, offset, chunksSent, totalChunks, sendBuf, s2r>>
  /\ UNCHANGED receiverVars

\* faulty variant of SenderOnError: no guard on status completed
SenderOnErrorUnguarded ==
  /\ sChan = "open"
  /\ sChan' = "closing"
  /\ sStatus' = "failed"
  /\ sConn' = "failed"
  /\ UNCHANGED <<timedOut, sideVars, joinVars, apiVars, sigVars, mgrVars, retried, fileSize, flagged, share, sProgress, sConfirmed,
                 transferPaused, pausedTransferId, iceState, iceFailureCount,
                 spc, offset, chunksSent, totalChunks, sendBuf, s2r, r2s>>
  /\ UNCHANGED receiverVars

\* dataChannel.onerror (createSender)
SenderOnError ==
  /\ sChan = "open"
  /\ sChan' = "closing"
  /\ IF sStatus # "completed"
     THEN sStatus' = "failed" /\ sConn' = "failed"
     ELSE UNCHANGED <<sStatus, sConn>>
  /\ UNCHANGED <<timedOut, sideVars, joinVars, apiVars, sigVars, mgrVars, retried, fileSize, flagged, share, sProgress, sConfirmed,
                 transferPaused, pausedTransferId, iceState, iceFailureCount,
                 spc, offset, chunksSent, totalChunks, sendBuf, s2r, r2s>>
  /\ UNCHANGED receiverVars

\* dataChannel.onclose (createSender)
SenderOnClose ==
  /\ sChan = "closing"
  /\ sChan' = "closed"
  /\ sConn' = IF sStatus # "completed" THEN "disconnected" ELSE sConn
  /\ UNCHANGED <<timedOut, sideVars, joinVars, apiVars, sigVars, mgrVars, retried, fileSize, flagged, share, sStatus, sProgress, sConfirmed,
                 transferPaused, pausedTransferId, iceState, iceFailureCount,
                 spc, offset, chunksSent, totalChunks, sendBuf, s2r, r2s>>
  /\ UNCHANGED receiverVars

\* if (iceFailureCount <= maxRetries)
RetryAllowed(count) == count <= maxRetries

\* pc.oniceconnectionstatechange (createSender)
IceStateChange(s) ==
  /\ sStatus # "none"
  /\ iceState # "closed"
  /\ s # iceState
  /\ iceState' = s
  /\ IF s = "failed"
     THEN /\ iceFailureCount < MaxIceFailures
          /\ iceFailureCount' = iceFailureCount + 1
          /\ IF sStatus = "completed"
             THEN UNCHANGED <<sStatus, sConn, retried>>
             ELSE IF RetryAllowed(iceFailureCount + 1)
             \* "attempting TURN-only retry": builds turnOnlyConfig, creates
             \* no connection from it, marks transfer and connection connecting
             THEN /\ retried' = TRUE
                  /\ sStatus' = "connecting"
                  /\ sConn' = "connecting"
             ELSE /\ sStatus' = "failed"
                  /\ sConn' = "failed"
                  /\ UNCHANGED retried
     ELSE /\ iceFailureCount' = IF s = "connected" THEN 0 ELSE iceFailureCount
          /\ UNCHANGED <<sStatus, sConn, retried>>
  /\ UNCHANGED <<timedOut, sideVars, joinVars, apiVars, sigVars, mgrVars, fileSize, flagged, share, sProgress, sConfirmed,
                 transferPaused, pausedTransferId, sChan, spc, offset,
                 chunksSent, totalChunks, sendBuf, s2r, r2s>>
  /\ UNCHANGED receiverVars

IceEvent == \E s \in {"checking", "connected", "disconnected", "failed"} : IceStateChange(s)

\* ---- receiver (pc.ondatachannel of createReceiver) ----------------------------
\* { id, file: new File([], name), status: 'transferring', progress: 0, ... }
NewTransfer == [status |-> "transferring", progress |-> Zero, file |-> <<>>]

\* for (const bufferedChunk of pendingChunksBuffer) { chunksReceived++; ... }
RECURSIVE ProcessBuffered(_, _, _, _)
ProcessBuffered(buf, cr, arr, bytes) ==
  IF buf = <<>> THEN [cr |-> cr, arr |-> arr, bytes |-> bytes]
  ELSE ProcessBuffered(Tail(buf), cr + 1, SetAt(arr, cr, Head(buf)),
                       bytes + Head(buf).len)

\* chunk branch: completion test
AllChunksIn(cr, expected) == cr >= expected

\* string branch of dataChannel.onmessage: file metadata
ReceiveMetadata(m) ==
  /\ receivedFile' = TRUE
  /\ expectedChunks' = m.a
  /\ IF flagged
     THEN /\ transferPendingApproval' = TRUE
          /\ r2s' = Append(r2s, Msg("transfer-pause", 0, 0, 0, Zero))
          /\ rpc' = "awaitApproval"
          /\ UNCHANGED <<rTransfers, receivedChunks>>
     ELSE /\ rTransfers' = Append(rTransfers, NewTransfer)
          /\ receivedChunks' = NewArray(m.a)
          /\ UNCHANGED <<transferPendingApproval, r2s, rpc>>
  /\ UNCHANGED <<chunksReceived, bytesReceived, pendingChunksBuffer,
                 lastFeedbackVal, rChan>>

\* binary branch of dataChannel.onmessage: one chunk
ReceiveChunk(m, timeElapsed, frameElapsed) ==
  IF ~receivedFile
  THEN UNCHANGED <<r2s, rChan, rpc, receivedFile, expectedChunks,
                   chunksReceived, bytesReceived, receivedChunks,
                   transferPendingApproval, pendingChunksBuffer,
                   lastFeedbackVal, rTransfers>>
  ELSE IF transferPendingApproval
  THEN /\ pendingChunksBuffer' = Append(pendingChunksBuffer, Chunk(m.a, m.len))
       /\ UNCHANGED <<r2s, rChan, rpc, receivedFile, expectedChunks,
                      chunksReceived, bytesReceived, receivedChunks,
                      transferPendingApproval, lastFeedbackVal, rTransfers>>
  ELSE LET cr == chunksReceived + 1
           arr == SetAt(receivedChunks, cr - 1, Chunk(m.a, m.len))
           progress == Pct(cr, expectedChunks)
           shouldFeedback == timeElapsed \/ AbsDiffGeqOne(progress, lastFeedbackVal)
           shown == frameElapsed \/ LeqPct(Hundred, progress)
           done == AllChunksIn(cr, expectedChunks)
       IN
       /\ chunksReceived' = cr
       /\ bytesReceived' = bytesReceived + m.len
       /\ r2s' = IF shouldFeedback
                 THEN Append(r2s, Msg("progress-sync", cr, expectedChunks, 0, progress))
                 ELSE r2s
       /\ lastFeedbackVal' = IF shouldFeedback THEN progress ELSE lastFeedbackVal
       /\ receivedChunks' = IF done THEN <<>> ELSE arr
       /\ rTransfers' =
            IF rTransfers = <<>> THEN rTransfers
            ELSE [rTransfers EXCEPT ![1] =
                    [status |-> IF done THEN "completed" ELSE @.status,
                     progress |-> IF done THEN Hundred
                                  ELSE IF shown THEN MinHundred(progress)
                                  ELSE @.progress,
                     file |-> IF done THEN Blob(arr) ELSE @.file]]
       /\ UNCHANGED <<rChan, rpc, receivedFile, expectedChunks,
                      transferPendingApproval, pendingChunksBuffer>>

\* dataChannel.onmessage on the receiver
ReceiverOnMessage ==
  /\ rChan = "open"
  /\ s2r # <<>>
  /\ s2r' = Tail(s2r)
  /\ LET m == Head(s2r) IN
       IF m.type = "metadata" THEN ReceiveMetadata(m)
       ELSE IF m.type = "close"
       \* the sender's side went away: the channel starts closing
       THEN /\ rChan' = "closing"
            /\ UNCHANGED <<r2s, rpc, receivedFile, expectedChunks,
                           chunksReceived, bytesReceived, receivedChunks,
                           transferPendingApproval, pendingChunksBuffer,
                           lastFeedbackVal, rTransfers>>
       ELSE \E timeElapsed \in BOOLEAN, frameElapsed \in BOOLEAN :
              ReceiveChunk(m, timeElapsed, frameElapsed)
  /\ UNCHANGED <<timedOut, sideVars, joinVars, apiVars, sigVars, mgrVars, retried, fileSize, flagged, share, rConn>>
  /\ UNCHANGED senderVars

\* await this.onReceiverSecurityWarning(...) resolves with the user's answer;
\* the metadata handler then runs to its end.
UserDecision(userApproved) ==
  /\ rpc = "awaitApproval"
  /\ rpc' = "idle"
  /\ transferPendingApproval' = FALSE
  /\ pendingChunksBuffer' = IF userApproved THEN <<>> ELSE pendingChunksBuffer
  /\ IF ~userApproved
     \* dataChannel.send throws on a channel that is not open (caught, logged);
     \* close() changes nothing on a channel already closing or closed
     THEN /\ r2s' = IF rChan = "open"
                    THEN r2s \o <<Msg("transfer-cancel", 0, 0, 0, Zero),
                                  Msg("close", 0, 0, 0, Zero)>>
                    ELSE r2s
          /\ rChan' = IF rChan \in {"new", "open"} THEN "closing" ELSE rChan
          /\ UNCHANGED <<chunksReceived, bytesReceived, receivedChunks, rTransfers>>
     ELSE LET folded == ProcessBuffered(pendingChunksBuffer, chunksReceived,
                                        NewArray(expectedChunks), bytesReceived)
              approved == [NewTransfer EXCEPT !.progress =
                             IF pendingChunksBuffer = <<>> THEN Zero
                             ELSE MinHundred(Pct(folded.cr, expectedChunks))]
          IN
          /\ r2s' = IF rChan = "open"
                    THEN Append(r2s, Msg("transfer-resume", 0, 0, 0, Zero))
                    ELSE r2s
          /\ chunksReceived' = folded.cr
          /\ bytesReceived' = folded.bytes
          \* falls through to "Only create transfer if not pending approval":
          \* a second transfer is registered and receivedChunks re-allocated
          /\ rTransfers' = rTransfers \o <<approved, NewTransfer>>
          /\ receivedChunks' = NewArray(expectedChunks)
          /\ UNCHANGED rChan
  /\ UNCHANGED <<timedOut, sideVars, joinVars, apiVars, sigVars, mgrVars, retried, fileSize, flagged, share, s2r, receivedFile, expectedChunks,
                 lastFeedbackVal, rConn>>
  /\ UNCHANGED senderVars

UserDecides == \E userApproved \in BOOLEAN : UserDecision(userApproved)

\* dataChannel.onopen on the receiver
ReceiverOnOpen ==
  /\ rChan = "new"
  /\ sChan = "open"
  /\ rChan' = "open"
  /\ rConn' = "connected"
  /\ UNCHANGED <<timedOut, sideVars, joinVars, apiVars, sigVars, mgrVars, retried, fileSize, flagged, share, s2r, r2s,
                 rpc, receivedFile, expectedChunks, chunksReceived,
                 bytesReceived, receivedChunks, transferPendingApproval,
                 pendingChunksBuffer, lastFeedbackVal, rTransfers>>
  /\ UNCHANGED senderVars

\* dataChannel.onerror on the receiver: only the connection status changes;
\* what was in flight towards the receiver is never delivered
ReceiverOnError ==
  /\ rChan = "open"
  /\ rChan' = "closing"
  /\ rConn' = "failed"
  /\ s2r' = <<>>
  /\ UNCHANGED <<timedOut, sideVars, joinVars, apiVars, sigVars, mgrVars, retried, fileSize, flagged, share, r2s,
                 rpc, receivedFile, expectedChunks, chunksReceived,
                 bytesReceived, receivedChunks, transferPendingApproval,
                 pendingChunksBuffer, lastFeedbackVal, rTransfers>>
  /\ UNCHANGED senderVars

\* dataChannel.onclose on the receiver: only the connection status changes
ReceiverOnClose ==
  /\ rChan = "closing"
  /\ rChan' = "closed"
  /\ rConn' = "disconnected"
  /\ UNCHANGED <<timedOut, sideVars, joinVars, apiVars, sigVars, mgrVars, retried, fileSize, flagged, share, s2r, r2s,
                 rpc, receivedFile, expectedChunks, chunksReceived,
                 bytesReceived, receivedChunks, transferPendingApproval,
                 pendingChunksBuffer, lastFeedbackVal, rTransfers>>
  /\ UNCHANGED senderVars

\* ---- sender page: file selection and closing the share dialog -------------------
\* faulty variant of CleanupResult: this.transfers and this.connections are
\* not cleared
CleanupKeepsMaps ==
  [chan |-> IF sChan \in {"new", "open"} /\ registered THEN "closing" ELSE sChan,
   ice |-> IF registered THEN "closed" ELSE iceState,
   registered |-> registered,
   worker |-> "null",
   pending |-> {}]

\* cleanup(): close every data channel and peer connection, clear both maps,
\* terminate the worker, clear pendingChunks.  Result as a record.
CleanupResult ==
  [chan |-> IF sChan \in {"new", "open"} /\ registered THEN "closing" ELSE sChan,
   ice |-> IF registered THEN "closed" ELSE iceState,
   registered |-> FALSE,
   worker |-> "null",
   pending |-> {}]

\* handleFileSelect up to the return of createSender: cleanup() of whatever
\* the manager held, then a new transfer (pending) and connection (connecting).
SelectFile ==
  /\ sStatus = "none"
  /\ LET c == CleanupResult IN
       /\ chunkWorker' = c.worker
       /\ pendingChunks' = c.pending
  /\ registered' = TRUE
  /\ sStatus' = "pending"
  /\ sConn' = "connecting"
  /\ UNCHANGED <<timedOut, sideVars, joinVars, apiVars, sigVars, retried, fileSize, flagged, share, sProgress, sConfirmed,
                 transferPaused, pausedTransferId, iceState, iceFailureCount,
                 sChan, spc, offset, chunksSent, totalChunks, sendBuf, s2r, r2s>>
  /\ UNCHANGED receiverVars

\* handleCloseShare: the share dialog is closed, webrtcManager.cleanup() runs.
\* Data still queued on the channel is dropped with the connection; the peer
\* sees the channel close behind the messages already in flight.
HandleCloseShare ==
  /\ share = "created"
  /\ registered
  /\ LET c == CleanupResult IN
       /\ sChan' = c.chan
       /\ iceState' = c.ice
       /\ registered' = c.registered
       /\ chunkWorker' = c.worker
       /\ pendingChunks' = c.pending
  /\ s2r' = IF sChan = "open" THEN Append(s2r, Msg("close", 0, 0, 0, Zero)) ELSE s2r
  /\ UNCHANGED <<timedOut, sideVars, joinVars, apiVars, sigVars, retried, fileSize, flagged, share, sStatus, sConn,
                 sProgress, sConfirmed, transferPaused, pausedTransferId,
                 iceFailureCount, spc, offset, chunksSent, totalChunks,
                 sendBuf, r2s>>
  /\ UNCHANGED receiverVars

\* ---- signaling: mailbox server (api/signal/route.ts) ---------------------------
\* everything outside the signaling part
coreVars == <<fileSize, flagged, share, s2r, r2s, retried, timedOut, mgrVars,
              senderVars, receiverVars>>

xferVars == <<coreVars, apiVars, joinVars, sideVars>>

\* POST: if (!message.senderId || !message.receiverId || !message.type) -> 400
SignalAccepted(e) == e.senderId # "" /\ e.receiverId # "" /\ e.type # ""

\* POST /api/signal reaches the server: the message is appended to the list
\* of its receiverId.  Requests under way arrive in any order.
SignalPost ==
  /\ \E e \in posts :
       /\ posts' = posts \ {e}
       /\ signals' = IF SignalAccepted(e)
                     THEN [signals EXCEPT ![e.receiverId] = Append(@, e)]
                     ELSE signals
  /\ UNCHANGED <<delivered, isPolling, sPoll, pollCount, sTimer, icePolling,
                 rPoll, attempts, rTimer, rStage, remoteDescription,
                 remotePeerId, pendingLocalCandidates, sCandidates,
                 rCandidates, sDrained, sApplied, rApplied>>
  /\ UNCHANGED <<xferVars, pollFailure>>

\* the one-hour timer set by POST: messages without data.timestamp count as
\* old and are filtered out, the emptied list is deleted
SignalExpire ==
  /\ \E id \in {TransferId, ConnectionId} :
       /\ signals[id] # <<>>
       /\ signals' = [signals EXCEPT ![id] = <<>>]
  /\ UNCHANGED <<posts, delivered, isPolling, sPoll, pollCount, sTimer,
                 icePolling, rPoll, attempts, rTimer, rStage,
                 remoteDescription, remotePeerId, pendingLocalCandidates,
                 sCandidates, rCandidates, sDrained, sApplied, rApplied>>
  /\ UNCHANGED <<xferVars, pollFailure>>

\* faulty variant of SignalsAfterGet: the list is not deleted
SignalsAfterGetKept(id) == signals

\* GET: signals.delete(receiverId) before the response is built
SignalsAfterGet(id) == [signals EXCEPT ![id] = <<>>]

\* history of GET responses: one more delivery for every envelope in the batch
Returned(batch) ==
  [e \in Envelopes |->
     IF \E i \in 1..Len(batch) : batch[i] = e
     THEN Min2(delivered[e] + 1, 2) ELSE delivered[e]]

\* ---- signaling: sender page (startSignalingPolling) ----------------------------
\* faulty variant of MayPoll: the loop polls whatever the flag says
MayPollAlways(polling) == TRUE

\* if (!isPolling) return   /   if (!icePolling) return
MayPoll(polling) == polling

\* for (const signal of signals): answer -> handleAnswer, peer-info ->
\* registerRemotePeer, ice-candidate -> addIceCandidate; each in a try/catch
\* that logs.  handleAnswer throws when the transfer is gone; addIceCandidate
\* rejects on a pc without remote description and finds no pc once the
\* manager's maps are empty.
RECURSIVE ProcessSignals(_, _)
ProcessSignals(batch, st) ==
  IF batch = <<>> THEN st
  ELSE LET m == Head(batch)
           nx == CASE m.type = "answer" ->
                        [st EXCEPT !.desc = st.desc \/ registered]
                   [] m.type = "peer-info" ->
                        [st EXCEPT !.peer = TRUE,
                                   !.flush = st.flush \cup st.pending,
                                   !.pending = {}]
                   [] OTHER ->
                        [st EXCEPT !.drained = st.drained \cup {m.n},
                                   !.applied = IF registered /\ st.desc
                                               THEN st.applied \cup {m.n}
                                               ELSE st.applied]
       IN ProcessSignals(Tail(batch), nx)

\* handleFileSelect after the share POST succeeded: startSignalingPolling
\* arms the 5-minute timer and issues the first poll request at once
StartSignalingPolling ==
  /\ share = "created"
  /\ registered
  /\ sPoll = "idle"
  /\ isPolling' = TRUE
  /\ sTimer' = "armed"
  /\ pollCount' = 1
  /\ sPoll' = "requested"
  /\ UNCHANGED <<signals, posts, delivered, icePolling, rPoll, attempts,
                 rTimer, rStage, remoteDescription, remotePeerId,
                 pendingLocalCandidates, sCandidates, rCandidates, sDrained,
                 sApplied, rApplied>>
  /\ UNCHANGED <<xferVars, pollFailure>>

\* how a poll's fetch ends: a response with the signals, a response that is
\* not ok, or a rejected fetch (network error)
PollOutcomes == {"ok", "not ok", "network error"}

\* how a POST of a candidate ends: the server stores it, answers not ok, or
\* the fetch rejects
PostOutcomes == IF postsFail THEN PollOutcomes ELSE {"ok"}

\* the candidates of a flush whose POST the server stores: each fetch of
\* registerRemotePeer is in a try with an empty catch
Stored(flush) == IF postsFail THEN SUBSET flush ELSE {flush}

\* faulty variant of ScheduleNextPoll: a failed poll ends the loop
ScheduleNextPollUnlessFailed(polling, outcome) ==
  IF polling /\ outcome = "ok" THEN "scheduled" ELSE "stopped"

\* scheduleNextPoll, called on every path of pollForSignals:
\* if (!isPolling) return; setTimeout(pollForSignals, interval)
ScheduleNextPoll(polling, outcome) ==
  IF polling THEN "scheduled" ELSE "stopped"

\* the GET of a poll is served and its response processed, then
\* scheduleNextPoll; a poll that fails is logged and the next one scheduled
SenderPollResponse ==
  /\ sPoll = "requested"
  /\ \E outcome \in PollOutcomes :
       /\ IF outcome = "ok"
          THEN LET batch == signals[TransferId]
                   st == ProcessSignals(batch,
                           [desc |-> remoteDescription, peer |-> remotePeerId,
                            pending |-> pendingLocalCandidates, flush |-> {},
                            drained |-> sDrained, applied |-> sApplied])
               IN
               /\ signals' = SignalsAfterGet(TransferId)
               /\ delivered' = Returned(batch)
               /\ remoteDescription' = st.desc
               /\ remotePeerId' = st.peer
               /\ pendingLocalCandidates' = st.pending
               /\ \E stored \in Stored(st.flush) :
                    /\ posts' = posts \cup
                                  {Envelope("ice-candidate", TransferId, ConnectionId, n) :
                                     n \in stored}
                    /\ candPosts' = [n \in 1..MaxCandidates |->
                                       IF n \in stored THEN candPosts[n] + 1
                                       ELSE candPosts[n]]
               /\ sDrained' = st.drained
               /\ sApplied' = st.applied
               /\ pollFailure' = "none"
          ELSE /\ pollFailure' = "sender"
               /\ UNCHANGED <<signals, delivered, remoteDescription,
                              remotePeerId, pendingLocalCandidates, posts,
                              sDrained, sApplied, candPosts>>
       /\ sPoll' = ScheduleNextPoll(isPolling, outcome)
  /\ UNCHANGED <<isPolling, pollCount, sTimer, icePolling, rPoll, attempts,
                 rTimer, rStage, sCandidates, rCandidates, rApplied>>
  /\ UNCHANGED <<coreVars, apiVars, joinVars, advVars, pairVars, answerVars, statVars,
                 postsFail>>

\* setTimeout(pollForSignals, interval) fires: pollForSignals
SenderPollForSignals ==
  /\ sPoll = "scheduled"
  /\ IF MayPoll(isPolling)
     THEN /\ pollCount < MaxPolls
          /\ pollCount' = pollCount + 1
          /\ sPoll' = "requested"
     ELSE /\ sPoll' = "stopped"
          /\ UNCHANGED pollCount
  /\ UNCHANGED <<signals, posts, delivered, isPolling, sTimer, icePolling,
                 rPoll, attempts, rTimer, rStage, remoteDescription,
                 remotePeerId, pendingLocalCandidates, sCandidates,
                 rCandidates, sDrained, sApplied, rApplied>>
  /\ UNCHANGED <<xferVars, pollFailure>>

\* "Stop polling after 5 minutes"
SenderPollTimeout ==
  /\ sTimer = "armed"
  /\ sTimer' = "fired"
  /\ isPolling' = FALSE
  /\ UNCHANGED <<signals, posts, delivered, sPoll, pollCount, icePolling,
                 rPoll, attempts, rTimer, rStage, remoteDescription,
                 remotePeerId, pendingLocalCandidates, sCandidates,
                 rCandidates, sDrained, sApplied, rApplied>>
  /\ UNCHANGED <<xferVars, pollFailure>>

\* pc.onicecandidate (createSender): posted when the receiver's id is known,
\* buffered in pendingLocalCandidates otherwise
SenderIceCandidate ==
  /\ registered
  /\ sCandidates < MaxCandidates
  /\ sCandidates' = sCandidates + 1
  /\ IF remotePeerId
     THEN \E outcome \in PostOutcomes :
            /\ posts' = IF outcome = "ok"
                        THEN posts \cup {Envelope("ice-candidate", TransferId,
                                                  ConnectionId, sCandidates + 1)}
                        ELSE posts
            /\ candPosts' = IF outcome = "ok"
                            THEN [candPosts EXCEPT ![sCandidates + 1] = @ + 1]
                            ELSE candPosts
            \* catch: "If send fails, buffer and retry later"; a response
            \* that is not ok does not throw
            /\ pendingLocalCandidates' =
                 IF outcome = "network error"
                 THEN pendingLocalCandidates \cup {sCandidates + 1}
                 ELSE pendingLocalCandidates
     ELSE /\ pendingLocalCandidates' = pendingLocalCandidates \cup {sCandidates + 1}
          /\ UNCHANGED <<posts, candPosts>>
  /\ UNCHANGED <<signals, delivered, isPolling, sPoll, pollCount, sTimer,
                 icePolling, rPoll, attempts, rTimer, rStage,
                 remoteDescription, remotePeerId, rCandidates, sDrained,
                 sApplied, rApplied>>
  /\ UNCHANGED <<coreVars, apiVars, joinVars, advVars, pairVars, answerVars, statVars,
                 postsFail, pollFailure>>

\* ---- signaling: receiver page (proceedWithDownload) ----------------------------
\* the PINs a user types: nothing, a wrong one, the right one
Pins == {"", "4820", "4821"}

\* sha256Hex of lib/utils: a one-way hash, distinct PINs have distinct hashes
Sha256Hex(pin) ==
  CASE pin = "4821" -> "h1"
    [] pin = "4820" -> "h0"
    [] OTHER -> "h"

\* faulty variant of PinGate: any entered PIN passes
PinGateAnyPin(held, input, hashed) ==
  IF held = "" THEN "pass"
  ELSE IF input = "" THEN "PIN is required"
  ELSE "pass"

\* the PIN check of proceedWithDownload (and of handleDownload before it):
\* "pass" or the pinError set; hashed is FALSE when sha256Hex throws
PinGate(held, input, hashed) ==
  IF held = "" THEN "pass"
  ELSE IF input = "" THEN "PIN is required"
  ELSE IF ~hashed THEN "Failed to validate PIN"
  ELSE IF Sha256Hex(input) # held THEN "Incorrect PIN"
  ELSE "pass"

\* the PIN input is shown while pinRequired && !pinValid:
\* onChange sets pinInput and clears pinError
EnterPin ==
  /\ heldPinHash # ""
  /\ ~pinValid
  /\ \E pin \in Pins : pinInput' = pin
  /\ pinError' = ""
  /\ UNCHANGED <<heldPinHash, pinValid, heldId>>
  /\ UNCHANGED <<coreVars, apiVars, sigVars, sideVars>>

\* Verify / Download: the PIN check, then createReceiver, handleOffer, and the
\* answer is posted
ReceiverHandleOffer ==
  /\ share = "created"
  /\ rStage = "none"
  /\ \E hashed \in BOOLEAN :
       LET verdict == PinGate(heldPinHash, pinInput, hashed) IN
       IF verdict = "pass"
       THEN /\ rStage' = "answer"
            /\ posts' = posts \cup {Envelope("answer", ConnectionId, TransferId, 0)}
            /\ pinValid' = (pinValid \/ heldPinHash # "")
            /\ pinError' = IF heldPinHash # "" THEN "" ELSE pinError
       ELSE /\ pinError' = verdict
            /\ UNCHANGED <<rStage, posts, pinValid>>
  /\ UNCHANGED <<signals, delivered, isPolling, sPoll, pollCount, sTimer,
                 icePolling, rPoll, attempts, rTimer, remoteDescription,
                 remotePeerId, pendingLocalCandidates, sCandidates,
                 rCandidates, sDrained, sApplied, rApplied>>
  /\ UNCHANGED <<coreVars, apiVars, sideVars, heldPinHash, heldId, pinInput, pollFailure>>

\* the answer POST returned ok: peer-info is posted
ReceiverAnswerSent ==
  /\ rStage = "answer"
  /\ Envelope("answer", ConnectionId, TransferId, 0) \notin posts
  /\ rStage' = "peer-info"
  /\ posts' = posts \cup {Envelope("peer-info", ConnectionId, TransferId, 0)}
  /\ UNCHANGED <<signals, delivered, isPolling, sPoll, pollCount, sTimer,
                 icePolling, rPoll, attempts, rTimer, remoteDescription,
                 remotePeerId, pendingLocalCandidates, sCandidates,
                 rCandidates, sDrained, sApplied, rApplied>>
  /\ UNCHANGED <<xferVars, pollFailure>>

\* the peer-info POST returned: the 5-minute timer is armed and the first
\* candidate poll issued
ReceiverStartIcePolling ==
  /\ rStage = "peer-info"
  /\ Envelope("peer-info", ConnectionId, TransferId, 0) \notin posts
  /\ rStage' = "polling"
  /\ icePolling' = TRUE
  /\ rTimer' = "armed"
  /\ attempts' = 1
  /\ rPoll' = "requested"
  /\ UNCHANGED <<signals, posts, delivered, isPolling, sPoll, pollCount,
                 sTimer, remoteDescription, remotePeerId,
                 pendingLocalCandidates, sCandidates, rCandidates, sDrained,
                 sApplied, rApplied>>
  /\ UNCHANGED <<xferVars, pollFailure>>

\* pc.onicecandidate (handleOffer): every candidate is posted to the sender
ReceiverIceCandidate ==
  /\ rStage # "none"
  /\ rCandidates < MaxCandidates
  /\ rCandidates' = rCandidates + 1
  /\ posts' = posts \cup {Envelope("ice-candidate", ConnectionId, TransferId,
                                   rCandidates + 1)}
  /\ UNCHANGED <<signals, delivered, isPolling, sPoll, pollCount, sTimer,
                 icePolling, rPoll, attempts, rTimer, rStage,
                 remoteDescription, remotePeerId, pendingLocalCandidates,
                 sCandidates, sDrained, sApplied, rApplied>>
  /\ UNCHANGED <<xferVars, pollFailure>>

\* the GET of a candidate poll is served; the receiver's pc has the offer as
\* remote description, so each candidate is added; setTimeout(poll, ...)
ReceiverPollResponse ==
  /\ rPoll = "requested"
  /\ \E outcome \in PollOutcomes :
       /\ IF outcome = "ok"
          THEN LET batch == signals[ConnectionId] IN
                 /\ signals' = SignalsAfterGet(ConnectionId)
                 /\ delivered' = Returned(batch)
                 /\ rApplied' = rApplied \cup
                                   {batch[i].n : i \in {j \in 1..Len(batch) :
                                      batch[j].type = "ice-candidate"}}
                 /\ pollFailure' = "none"
          ELSE /\ pollFailure' = "receiver"
               /\ UNCHANGED <<signals, delivered, rApplied>>
       /\ rPoll' = ScheduleNextPoll(TRUE, outcome)
  /\ UNCHANGED <<posts, isPolling, sPoll, pollCount, sTimer, icePolling,
                 attempts, rTimer, rStage, remoteDescription, remotePeerId,
                 pendingLocalCandidates, sCandidates, rCandidates, sDrained,
                 sApplied>>
  /\ UNCHANGED xferVars

\* setTimeout(poll, ...) fires: poll
ReceiverPoll ==
  /\ rPoll = "scheduled"
  /\ IF MayPoll(icePolling)
     THEN /\ attempts < MaxPolls
          /\ attempts' = attempts + 1
          /\ rPoll' = "requested"
     ELSE /\ rPoll' = "stopped"
          /\ UNCHANGED attempts
  /\ UNCHANGED <<signals, posts, delivered, isPolling, sPoll, pollCount,
                 sTimer, icePolling, rTimer, rStage, remoteDescription,
                 remotePeerId, pendingLocalCandidates, sCandidates,
                 rCandidates, sDrained, sApplied, rApplied>>
  /\ UNCHANGED <<xferVars, pollFailure>>

\* "Stop after 5 minutes"
ReceiverPollTimeout ==
  /\ rTimer = "armed"
  /\ rTimer' = "fired"
  /\ icePolling' = FALSE
  /\ UNCHANGED <<signals, posts, delivered, isPolling, sPoll, pollCount,
                 sTimer, rPoll, attempts, rStage, remoteDescription,
                 remotePeerId, pendingLocalCandidates, sCandidates,
                 rCandidates, sDrained, sApplied, rApplied>>
  /\ UNCHANGED <<xferVars, pollFailure>>

SigNext ==
  \/ SelectFile
  \/ SharePost
  \/ HandleCloseShare
  \/ StartSignalingPolling
  \/ SenderPollResponse
  \/ SenderPollForSignals
  \/ SenderPollTimeout
  \/ SenderIceCandidate
  \/ ReceiverHandleOffer
  \/ ReceiverAnswerSent
  \/ ReceiverStartIcePolling
  \/ ReceiverIceCandidate
  \/ ReceiverPollResponse
  \/ ReceiverPoll
  \/ ReceiverPollTimeout
  \/ SignalPost
  \/ SignalExpire

\* the file's size and the security flag play no part in signaling: one
\* file the share API rejects and one it accepts
SigInit == Init /\ fileSize \in {0, MaxFileSize} /\ ~flagged

SigSpec == SigInit /\ [][SigNext]_vars

\* the sender's candidates on a network where a POST to /api/signal can fail
CandNext ==
  \/ SelectFile
  \/ SharePost
  \/ StartSignalingPolling
  \/ SenderPollResponse
  \/ SenderPollForSignals
  \/ SenderIceCandidate
  \/ ReceiverHandleOffer
  \/ ReceiverAnswerSent
  \/ ReceiverStartIcePolling
  \/ SignalPost

CandInit ==
  /\ Constructed
  /\ kvConfigured = TRUE
  /\ postsFail = TRUE
  /\ heldPinHash = ""
  /\ fileName = <<>>
  /\ fileSize = MaxFileSize
  /\ flagged = FALSE

CandSpec == CandInit /\ [][CandNext]_vars

\* joining a share: the record held by the receiver page carries a pinHash
\* the sender page computed from "4821", or none
JoinNext ==
  \/ SelectFile
  \/ SharePost
  \/ EnterPin
  \/ ReceiverHandleOffer
  \/ ReceiverAnswerSent
  \/ ReceiverStartIcePolling
  \/ SignalPost

JoinInit ==
  /\ Constructed
  /\ kvConfigured = TRUE
  /\ postsFail = FALSE
  /\ heldPinHash \in {"", Sha256Hex("4821")}
  /\ fileName = <<>>
  /\ fileSize \in 0..MaxFileSize
  /\ flagged = FALSE

JoinSpec == JoinInit /\ [][JoinNext]_vars

\* ==== security advisor (lib/security.ts) ===========================================
\* File names are sequences of characters, built from at most MaxNameParts
\* parts; the two names of the scenario are added to them.
NameParts ==
  { <<".">>, <<" ">>, <<"%">>, <<"2">>, <<"U+200B">>, <<"a">>,
    <<"p", "d", "f">>, <<"P", "d", "F">>, <<"e", "x", "e">>,
    <<".", "e", "x", "e">>, <<"s", "c", "r">> }

RECURSIVE NamesOf(_)
NamesOf(n) ==
  IF n = 0 THEN {<<>>}
  ELSE LET shorter == NamesOf(n - 1)
       IN  shorter \cup {s \o part : s \in shorter, part \in NameParts}

InvoicePdfExe ==
  <<"i", "n", "v", "o", "i", "c", "e", ".", "p", "d", "f", ".", "e", "x", "e">>

ArchiveZip == <<"a", "r", "c", "h", "i", "v", "e", ".", "z", "i", "p">>

FileNames == NamesOf(MaxNameParts) \cup {InvoicePdfExe, ArchiveZip}

\* file.name.toLowerCase()
LowerChar(c) ==
  CASE c = "P" -> "p"
    [] c = "F" -> "f"
    [] OTHER -> c

ToLowerCase(name) == [k \in 1..Len(name) |-> LowerChar(name[k])]

\* pattern$ : the name ends with the characters of suffix
EndsWith(name, suffix) ==
  /\ Len(name) >= Len(suffix)
  /\ SubSeq(name, Len(name) - Len(suffix) + 1, Len(name)) = suffix

DisguiseExtensions ==
  { <<"p", "d", "f">>, <<"d", "o", "c">>, <<"d", "o", "c", "x">>,
    <<"j", "p", "g">>, <<"j", "p", "e", "g">>, <<"p", "n", "g">>,
    <<"t", "x", "t">>, <<"z", "i", "p">> }

HighRiskExtensions ==
  { <<"s", "c", "r">>, <<"p", "i", "f">>, <<"c", "o", "m">>,
    <<"c", "m", "d">>, <<"b", "a", "t">>, <<"v", "b", "s">>,
    <<"p", "s", "1">> }

\* /\.(pdf|doc|docx|jpg|jpeg|png|txt|zip)\.exe$/i
doubleExtensionPattern(name) ==
  \E d \in DisguiseExtensions :
    EndsWith(name, <<".">> \o d \o <<".", "e", "x", "e">>)

\* /\.(scr|pif|com|cmd|bat|vbs|ps1)$/i
highRiskExtensions(name) ==
  \E x \in HighRiskExtensions : EndsWith(name, <<".">> \o x)

\* [0-9A-F] under the i flag
HexDigit(c) ==
  c \in {"0", "1", "2", "3", "4", "5", "6", "7", "8", "9",
         "a", "b", "c", "d", "e", "f", "A", "B", "C", "D", "E", "F"}

\* \s : the white space characters
WhiteSpace(c) == c \in {" ", "\t", "\n", "\r"}

\* \s{3,} : a run of three white space characters somewhere in the name
WhiteSpaceRun(name) ==
  \E k \in 1..(Len(name) - 2) : \A j \in k..(k + 2) : WhiteSpace(name[j])

\* \.{3,} : a run of three dots somewhere in the name
DotRun(name) ==
  \E k \in 1..(Len(name) - 2) : \A j \in k..(k + 2) : name[j] = "."

\* /%[0-9A-F]{2}/i, /[\u200B-\u200D\uFEFF]/, /\s{3,}|\.{3,}/
hasObfuscatedName(name) ==
  \/ \E k \in 1..(Len(name) - 2) :
       name[k] = "%" /\ HexDigit(name[k + 1]) /\ HexDigit(name[k + 2])
  \/ \E k \in 1..Len(name) :
       name[k] \in {"U+200B", "U+200C", "U+200D", "U+FEFF"}
  \/ WhiteSpaceRun(name)
  \/ DotRun(name)

\* faulty variant of checkFile: the obfuscation test comes first
checkFileObfuscationFirst(name) ==
  LET lower == ToLowerCase(name) IN
  IF hasObfuscatedName(lower) THEN "info"
  ELSE IF doubleExtensionPattern(lower) THEN "caution"
  ELSE IF highRiskExtensions(lower) THEN "info"
  ELSE "none"

\* checkFile: the type of the warning returned, "none" for null
checkFile(name) ==
  LET lower == ToLowerCase(name) IN
  IF doubleExtensionPattern(lower) THEN "caution"
  ELSE IF highRiskExtensions(lower) THEN "info"
  ELSE IF hasObfuscatedName(lower) THEN "info"
  ELSE "none"

CheckFile ==
  /\ advisory = "unchecked"
  /\ advisory' = checkFile(fileName)
  /\ UNCHANGED <<fileName, pairVars, answerVars, candVars, statVars>>
  /\ UNCHANGED <<coreVars, apiVars, sigVars, joinVars>>

AdvisorNext ==
  \/ CheckFile

AdvisorInit ==
  /\ Constructed
  /\ kvConfigured = TRUE
  /\ postsFail = FALSE
  /\ heldPinHash = ""
  /\ fileName \in FileNames
  /\ fileSize = 0
  /\ flagged = FALSE

AdvisorSpec == AdvisorInit /\ [][AdvisorNext]_vars

\* ==== the API routes with a clock ===============================================
\* the signaling variables other than the mailbox
sigOther == <<posts, delivered, isPolling, sPoll, pollCount, sTimer, icePolling,
              rPoll, attempts, rTimer, rStage, remoteDescription,
              remotePeerId, pendingLocalCandidates, sCandidates, rCandidates,
              sDrained, sApplied, rApplied, pollFailure>>

shareVars == <<kvConfigured, transferStore, kvStore, issued>>

\* time passes; a timer that is due fires before the clock moves on
Tick ==
  /\ now < MaxTime
  /\ \A t \in cleanupTimers : t.at > now
  /\ now' = now + 1
  /\ UNCHANGED <<shareVars, resp, cleanupTimers, unread, mailCount>>
  /\ UNCHANGED <<coreVars, sigVars, joinVars, sideVars>>

\* ---- api/signal with its timers ------------------------------------------------
\* a stored message: the envelope, when it was posted, and whether its data
\* carries a timestamp (the pages' envelopes carry none)
Stamped(e, at, has) == [env |-> e, postedAt |-> at, hasTimestamp |-> has]

\* the timer's filter: Date.now() - new Date(s.data?.timestamp || 0).getTime()
\* < 3600000; without a timestamp the message dates from the epoch
Fresh(m, t) == m.hasTimestamp /\ t - m.postedAt < HourTicks

\* currentSignals.filter(...)
Filtered(list, t) == SelectSeq(list, LAMBDA m : Fresh(m, t))

\* POST /api/signal: validation, push, and the one-hour timer
TimedSignalPost ==
  /\ mailCount < MaxMail
  /\ \E from \in {"", ConnectionId}, to \in {"", TransferId},
        t \in {"", "ice-candidate"}, has \in BOOLEAN :
       LET e == Envelope(t, from, to, mailCount + 1)
           m == Stamped(e, now, has)
       IN  IF SignalAccepted(e)
           THEN /\ signals' = [signals EXCEPT ![to] = Append(@, m)]
                /\ cleanupTimers' = cleanupTimers \cup
                                      {[id |-> to, at |-> now + HourTicks]}
                /\ unread' = unread \cup {m}
                /\ mailCount' = mailCount + 1
                /\ resp' = Response("signal POST", 0, "ok", None, TRUE)
           ELSE /\ resp' = Response("signal POST", 0, "400", None, FALSE)
                /\ UNCHANGED <<signals, cleanupTimers, unread, mailCount>>
  /\ UNCHANGED <<now, shareVars, sigOther>>
  /\ UNCHANGED <<coreVars, joinVars, sideVars>>

\* the setTimeout callback of a POST, one hour later
CleanupTimerFires ==
  /\ \E t \in cleanupTimers :
       /\ t.at <= now
       /\ cleanupTimers' = cleanupTimers \ {t}
       /\ signals' = [signals EXCEPT ![t.id] = Filtered(@, now)]
  /\ UNCHANGED <<now, shareVars, resp, unread, mailCount, sigOther>>
  /\ UNCHANGED <<coreVars, joinVars, sideVars>>

\* GET /api/signal: the list is returned and deleted
TimedSignalGet ==
  /\ signals' = SignalsAfterGet(TransferId)
  /\ unread' = unread \ {signals[TransferId][i] : i \in 1..Len(signals[TransferId])}
  /\ resp' = Response("signal GET", 0, "ok", signals[TransferId], TRUE)
  /\ UNCHANGED <<now, shareVars, cleanupTimers, mailCount, sigOther>>
  /\ UNCHANGED <<coreVars, joinVars, sideVars>>

\* ---- api/share with its expiry ---------------------------------------------------
\* JSON.stringify / JSON.parse of a record on its way through the KV backend
Stringify(r) == [json |-> r]

Parse(raw) == raw.json

\* request bodies of POST /api/share; "" and 0 are falsy (a missing field),
\* pinHash "none" is an absent pinHash
ShareBodies ==
  [transferId : {"", TransferId}, offer : {"", "offer"},
   fileName : {"", "a.txt"}, fileSize : {0, 1}, senderHasVpn : {TRUE},
   pinHash : {"none", "h1"}]

\* if (!transferData.transferId || !transferData.offer ||
\*     !transferData.fileName || !transferData.fileSize) -> 400
ShareFieldsPresent(d) ==
  d.transferId # "" /\ d.offer # "" /\ d.fileName # "" /\
  RequiredFieldsPresent(d.fileSize)

\* payload = {...transferData, createdAt: Date.now()}; firstAccessedAt -1 is
\* an absent firstAccessedAt
Payload(d, t) ==
  [transferId |-> d.transferId, offer |-> d.offer, fileName |-> d.fileName,
   fileSize |-> d.fileSize, senderHasVpn |-> d.senderHasVpn,
   pinHash |-> d.pinHash, createdAt |-> t, firstAccessedAt |-> -1]

\* faulty variant of Expired: a record never expires
ExpiredNever(age) == FALSE

\* age > EXPIRY_TIME
Expired(age) == age > ExpiryTicks

\* faulty variant of CleanedUp: every record is deleted
CleanedUpAll(store, t) == [id \in ShortIds |-> None]

\* cleanupExpiredTransfers on one instance's transferStore
CleanedUp(store, t) ==
  [id \in ShortIds |->
     IF store[id] # None /\ Expired(t - store[id].createdAt)
     THEN None ELSE store[id]]

\* kv.get: the value while its TTL runs (SET key value EX ttl), else null
KvGet(id, t) ==
  IF kvConfigured /\ kvStore[id] # None /\ t < kvStore[id].expiresAt
  THEN kvStore[id].value ELSE None

\* kv.setWithTTL(key, JSON.stringify(record), KV_TTL_SECONDS)
KvSet(id, r, t) ==
  IF kvConfigured
  THEN [kvStore EXCEPT ![id] = [value |-> Stringify(r),
                                expiresAt |-> t + ExpiryTicks]]
  ELSE kvStore

\* the instances a request can reach: any of them behind the shared KV, the
\* one process otherwise
Reachable == IF kvConfigured THEN Instances ELSE {1}

\* POST /api/share on instance i.  Short ids are 8 random characters; the
\* id drawn is one not issued before.
ShareCreate ==
  /\ \E i \in Reachable, d \in ShareBodies :
       LET cleaned == CleanedUp(transferStore[i], now) IN
       IF ~ShareFieldsPresent(d)
       THEN /\ transferStore' = [transferStore EXCEPT ![i] = cleaned]
            /\ resp' = Response("share POST", 0, "400", None, FALSE)
            /\ UNCHANGED <<kvStore, issued>>
       ELSE \E id \in 1..MaxShares :
              /\ issued[id] = None
              /\ transferStore' =
                   [transferStore EXCEPT ![i] =
                      [cleaned EXCEPT ![id] = Payload(d, now)]]
              /\ kvStore' = KvSet(id, Payload(d, now), now)
              /\ issued' = [issued EXCEPT ![id] = Payload(d, now)]
              /\ resp' = Response("share POST", id, "ok", None, TRUE)
  /\ UNCHANGED <<now, kvConfigured, cleanupTimers, unread, mailCount>>
  /\ UNCHANGED <<coreVars, sigVars, joinVars, sideVars>>

\* GET /api/share?id=... on instance i; id 0 is a request without id
ShareGet ==
  /\ \E i \in Reachable, id \in ShortIds \cup {0} :
       IF id = 0
       THEN /\ resp' = Response("share GET", 0, "400", None, FALSE)
            /\ UNCHANGED transferStore
       ELSE
       LET mem == transferStore[i][id]
           raw == IF mem = None THEN KvGet(id, now) ELSE None
           transferData == IF mem # None THEN mem
                           ELSE IF raw # None THEN Parse(raw) ELSE None
           updated == IF transferData.firstAccessedAt = -1
                      THEN [transferData EXCEPT !.firstAccessedAt = now]
                      ELSE transferData
       IN  IF transferData = None
           THEN /\ resp' = Response("share GET", id, "notfound", None, TRUE)
                /\ UNCHANGED transferStore
           ELSE IF Expired(now - transferData.createdAt)
           THEN /\ transferStore' = [transferStore EXCEPT ![i][id] = None]
                /\ resp' = Response("share GET", id, "expired", None, TRUE)
           ELSE /\ transferStore' = [transferStore EXCEPT ![i][id] = updated]
                /\ resp' = Response("share GET", id, "ok", updated, TRUE)
  /\ UNCHANGED <<now, kvConfigured, kvStore, issued, cleanupTimers, unread,
                 mailCount>>
  /\ UNCHANGED <<coreVars, sigVars, joinVars, sideVars>>

\* PUT /api/share {id, pinHash} on instance i: a string sets the pinHash,
\* null ("none") deletes it, anything else leaves it
ShareUpdate ==
  /\ \E i \in Reachable, id \in ShortIds \cup {0}, pin \in {"none", "h1", "undefined"} :
       IF id = 0
       THEN /\ resp' = Response("share PUT", 0, "400", None, FALSE)
            /\ UNCHANGED <<transferStore, kvStore, issued>>
       ELSE
       LET mem == transferStore[i][id]
           raw == IF mem = None THEN KvGet(id, now) ELSE None
           existing == IF mem # None THEN mem
                       ELSE IF raw # None THEN Parse(raw) ELSE None
           changed == IF pin = "undefined" THEN existing
                      ELSE [existing EXCEPT !.pinHash = pin]
       IN  IF existing = None
           THEN /\ resp' = Response("share PUT", id, "notfound", None, TRUE)
                /\ UNCHANGED <<transferStore, kvStore, issued>>
           ELSE /\ transferStore' = [transferStore EXCEPT ![i][id] = changed]
                /\ kvStore' = KvSet(id, changed, now)
                /\ issued' = [issued EXCEPT ![id].pinHash =
                                           IF pin = "undefined" THEN @ ELSE pin]
                /\ resp' = Response("share PUT", id, "ok", None, TRUE)
  /\ UNCHANGED <<now, kvConfigured, cleanupTimers, unread, mailCount>>
  /\ UNCHANGED <<coreVars, sigVars, joinVars, sideVars>>

ApiNext ==
  \/ Tick
  \/ TimedSignalPost
  \/ CleanupTimerFires
  \/ TimedSignalGet
  \/ ShareCreate
  \/ ShareGet
  \/ ShareUpdate

\* both routes in the one-process deployment without the KV backend
ApiInit ==
  Constructed /\ kvConfigured = FALSE /\ postsFail = FALSE /\ heldPinHash = "" /\ fileName = <<>> /\ fileSize = 0 /\ flagged = FALSE

ApiSpec == ApiInit /\ [][ApiNext]_vars

\* the share route in either deployment: with the KV backend or without
ShareNext ==
  \/ Tick
  \/ ShareCreate
  \/ ShareGet
  \/ ShareUpdate

ShareInit ==
  /\ Constructed
  /\ kvConfigured \in BOOLEAN
  /\ postsFail = FALSE
  /\ heldPinHash = ""
  /\ fileName = <<>>
  /\ fileSize = 0
  /\ flagged = FALSE

ShareSpec == ShareInit /\ [][ShareNext]_vars

\* ---- joining a share fetched from the share route -------------------------------
\* fetchTransferData of the receiver page: GET /api/share?id=... answered ok;
\* the record is kept in window.transferData.  The effect runs once per page.
FetchTransferData ==
  /\ heldId = 0
  /\ rStage = "none"
  /\ resp.op = "share GET"
  /\ resp.status = "ok"
  /\ heldId' = resp.id
  /\ heldPinHash' = IF resp.body.pinHash = "none" THEN "" ELSE resp.body.pinHash
  /\ UNCHANGED <<pinInput, pinError, pinValid>>
  /\ UNCHANGED <<coreVars, apiVars, sigVars, sideVars>>

\* Download is offered once the record is loaded (isLoading false)
LoadedHandleOffer == heldId # 0 /\ ReceiverHandleOffer

PinNext ==
  \/ SelectFile
  \/ SharePost
  \/ ShareCreate
  \/ ShareGet
  \/ ShareUpdate
  \/ FetchTransferData
  \/ EnterPin
  \/ LoadedHandleOffer

\* the one-process deployment; the receiver page has loaded nothing yet
PinInit ==
  /\ Constructed
  /\ kvConfigured = FALSE
  /\ postsFail = FALSE
  /\ heldPinHash = ""
  /\ fileName = <<>>
  /\ fileSize = MaxFileSize
  /\ flagged = FALSE

PinSpec == PinInit /\ [][PinNext]_vars


\* ==== completed-transfer counter (lib/statsStore.ts, api/stats) ====================
\* InMemoryStatsStore.incrementIfFirst: "Single counter mode: always increment"
MemoryIncrementIfFirst(mem, kvc, id) == [mem |-> mem + 1, kv |-> kvc, counted |-> TRUE]

\* UpstashStatsStore.incrementIfFirst: INCR of the counter key; when the
\* request fails, the memory store counts instead
UpstashIncrementIfFirst(mem, kvc, id, kvOk) ==
  IF kvOk THEN [mem |-> mem, kv |-> kvc + 1, counted |-> TRUE]
  ELSE MemoryIncrementIfFirst(mem, kvc, id)

\* statsStore.incrementIfFirst of the store chosen at module load
IncrementIfFirst(mem, kvc, id, kvOk) ==
  IF kvConfigured THEN UpstashIncrementIfFirst(mem, kvc, id, kvOk)
  ELSE MemoryIncrementIfFirst(mem, kvc, id)

\* statsStore.getTotal
GetTotal(kvOk) == IF kvConfigured /\ kvOk THEN kvTotal ELSE memTotal

\* POST /api/stats: "" is a body without transferId, "malformed" one that
\* request.json() rejects
StatsPost ==
  /\ statsCalls < MaxStatsCalls
  /\ statsCalls' = statsCalls + 1
  /\ \E id \in Transfers \cup {"", "malformed"}, kvOk \in BOOLEAN :
       IF id = "malformed"
       THEN /\ statsResp' = StatsResponse("POST", "500", FALSE, 0)
            /\ UNCHANGED <<memTotal, kvTotal, statPosts>>
       ELSE IF id = ""
       THEN /\ statsResp' = StatsResponse("POST", "400", FALSE, 0)
            /\ UNCHANGED <<memTotal, kvTotal, statPosts>>
       ELSE LET r == IncrementIfFirst(memTotal, kvTotal, id, kvOk) IN
            /\ memTotal' = r.mem
            /\ kvTotal' = r.kv
            /\ statPosts' = [statPosts EXCEPT ![id] = @ + 1]
            /\ statsResp' = StatsResponse("POST", "ok", r.counted, 0)
  /\ UNCHANGED <<coreVars, sigVars, apiVars, joinVars, advVars, pairVars,
                 answerVars, candVars>>

\* GET /api/stats
StatsGet ==
  /\ \E kvOk \in BOOLEAN : statsResp' = StatsResponse("GET", "ok", FALSE, GetTotal(kvOk))
  /\ UNCHANGED <<memTotal, kvTotal, statPosts, statsCalls>>
  /\ UNCHANGED <<coreVars, sigVars, apiVars, joinVars, advVars, pairVars,
                 answerVars, candVars>>

StatsNext == StatsPost \/ StatsGet

\* either deployment: with the KV backend or without
StatsInit ==
  /\ Constructed
  /\ kvConfigured \in BOOLEAN
  /\ postsFail = FALSE
  /\ heldPinHash = ""
  /\ fileName = <<>>
  /\ fileSize = 0
  /\ flagged = FALSE

StatsSpec == StatsInit /\ [][StatsNext]_vars

\* ==== two sender transfers in one manager ==========================================
\* what a pair step leaves alone: everything but the two transfers and the
\* manager's pause fields
pairOther == <<fileSize, flagged, share, s2r, r2s, retried, timedOut, mgrVars,
               sStatus, sConn, sProgress, sConfirmed, iceState,
               iceFailureCount, sChan, spc, offset, chunksSent, totalChunks,
               sendBuf, receiverVars, sigVars, apiVars, joinVars, advVars,
               answerVars, candVars, statVars>>

\* while (this.transferPaused && this.pausedTransferId === transferId)
PumpWaits(paused, pausedId, t) == paused /\ pausedId = t

\* head of the while loop of startFileSending for transfer t with sent chunks
\* handed over: the pause wait, the cancelled/failed test, then the next chunk
PumpHead(t, sent, st) ==
  IF sent >= PairChunks THEN "done"
  ELSE IF PumpWaits(transferPaused, pausedTransferId, t) THEN "paused"
  ELSE IF st \in {"cancelled", "failed"} THEN "stopped"
  ELSE "encode"

\* createSender(file) called a second time on the manager, then the channel
\* of transfer t opens: status transferring, metadata sent, pump started
PairOnOpen(t) ==
  /\ pumpOf[t] = "idle"
  /\ statusOf' = [statusOf EXCEPT ![t] = "transferring"]
  /\ pumpOf' = [pumpOf EXCEPT ![t] = PumpHead(t, 0, "transferring")]
  /\ UNCHANGED <<sentOf, ctlOf, approvalOf, holdOf, transferPaused, pausedTransferId>>
  /\ UNCHANGED pairOther

\* the receiver of transfer t handles the metadata of a flagged file: it
\* sends transfer-pause and waits for the user
PairReceiverPauses(t) ==
  /\ pumpOf[t] # "idle"
  /\ approvalOf[t] = "none"
  /\ approvalOf' = [approvalOf EXCEPT ![t] = "awaiting"]
  /\ ctlOf' = [ctlOf EXCEPT ![t] = Append(@, "transfer-pause")]
  /\ UNCHANGED <<pumpOf, sentOf, statusOf, holdOf, transferPaused, pausedTransferId>>
  /\ UNCHANGED pairOther

\* the user of transfer t's receiver approves: transfer-resume is sent
PairReceiverApproves(t) ==
  /\ approvalOf[t] = "awaiting"
  /\ approvalOf' = [approvalOf EXCEPT ![t] = "approved"]
  /\ ctlOf' = [ctlOf EXCEPT ![t] = Append(@, "transfer-resume")]
  /\ UNCHANGED <<pumpOf, sentOf, statusOf, holdOf, transferPaused, pausedTransferId>>
  /\ UNCHANGED pairOther

\* dataChannel.onmessage of transfer t's channel: transfer-pause and
\* transfer-resume write the manager's single pause flag and id
PairSenderOnMessage(t) ==
  /\ ctlOf[t] # <<>>
  /\ ctlOf' = [ctlOf EXCEPT ![t] = Tail(@)]
  /\ IF Head(ctlOf[t]) = "transfer-pause"
     THEN /\ statusOf' = [statusOf EXCEPT ![t] = "pending-approval"]
          /\ transferPaused' = TRUE
          /\ pausedTransferId' = t
          /\ holdOf' = [holdOf EXCEPT ![t] = TRUE]
     ELSE /\ statusOf' = [statusOf EXCEPT ![t] =
                            IF @ = "pending-approval" THEN "transferring" ELSE @]
          /\ transferPaused' = FALSE
          /\ pausedTransferId' = "null"
          /\ holdOf' = [holdOf EXCEPT ![t] = FALSE]
  /\ UNCHANGED <<pumpOf, sentOf, approvalOf>>
  /\ UNCHANGED pairOther

\* the chunk of transfer t's pump is ready: it is sent, chunksSent++, and the
\* loop comes round to its head
PairEncodeDone(t) ==
  /\ pumpOf[t] = "encode"
  /\ sentOf' = [sentOf EXCEPT ![t] = @ + 1]
  /\ pumpOf' = [pumpOf EXCEPT ![t] = PumpHead(t, sentOf[t] + 1, statusOf[t])]
  /\ UNCHANGED <<statusOf, ctlOf, approvalOf, holdOf, transferPaused, pausedTransferId>>
  /\ UNCHANGED pairOther

\* wait(100) of transfer t's pump returns and the wait condition is false
PairPauseWake(t) ==
  /\ pumpOf[t] = "paused"
  /\ ~PumpWaits(transferPaused, pausedTransferId, t)
  /\ pumpOf' = [pumpOf EXCEPT ![t] =
                  IF statusOf[t] \in {"cancelled", "failed"} THEN "stopped"
                  ELSE "encode"]
  /\ UNCHANGED <<sentOf, statusOf, ctlOf, approvalOf, holdOf, transferPaused, pausedTransferId>>
  /\ UNCHANGED pairOther

PairNext ==
  \/ \E t \in Transfers : PairOnOpen(t)
  \/ \E t \in Transfers : PairReceiverPauses(t)
  \/ \E t \in Transfers : PairReceiverApproves(t)
  \/ \E t \in Transfers : PairSenderOnMessage(t)
  \/ \E t \in Transfers : PairEncodeDone(t)
  \/ \E t \in Transfers : PairPauseWake(t)

\* createSender has been called twice on the one manager
PairInit ==
  /\ Constructed
  /\ kvConfigured = TRUE
  /\ postsFail = FALSE
  /\ heldPinHash = ""
  /\ fileName = <<>>
  /\ fileSize = 0
  /\ flagged = FALSE

PairSpec == PairInit /\ [][PairNext]_vars

\* ==== answer processing and the start of the pump =================================
\* faulty variant of AnswerApplies: an answer is applied in any state
AnswerAppliesAlways(state) == TRUE

\* RTCPeerConnection.setRemoteDescription(answer): an answer is applied only
\* to a connection that has sent its offer; in any other signaling state the
\* call rejects (InvalidStateError)
AnswerApplies(state) == state = "have-local-offer"

\* the sender page hands an answer signal to handleAnswer, which runs up to
\* its await: 'Transfer not found' without the transfer, else
\* setRemoteDescription is under way or has rejected.  The page's loop awaits
\* each call, so calls do not overlap.
HandleAnswer ==
  /\ answersLeft > 0
  /\ srd = "idle"
  /\ answersLeft' = answersLeft - 1
  /\ IF registered /\ AnswerApplies(signalingState)
     THEN srd' = "pending" /\ UNCHANGED answerRejected
     ELSE /\ answerRejected' = IF registered THEN "InvalidStateError"
                                ELSE "Transfer not found"
          /\ UNCHANGED srd
  /\ UNCHANGED <<signalingState, pumps, metaSends, chunkSends>>
  /\ UNCHANGED <<coreVars, sigVars, apiVars, joinVars, advVars, pairVars, candVars, statVars>>

\* startFileSending up to its loop: the metadata is sent and a pump with
\* chunksSent = 0 runs
Started(running) == Append(running, 0)

\* the answer is applied and the promise of setRemoteDescription resolves;
\* handleAnswer runs on in the same task: with the data channel open it
\* calls startFileSending
HandleAnswerSettles ==
  /\ srd = "pending"
  /\ srd' = "idle"
  /\ signalingState' = "stable"
  /\ IF sChan = "open"
     THEN pumps' = Started(pumps) /\ metaSends' = metaSends + 1
     ELSE UNCHANGED <<pumps, metaSends>>
  /\ UNCHANGED <<answersLeft, chunkSends, answerRejected>>
  /\ UNCHANGED <<coreVars, sigVars, apiVars, joinVars, advVars, pairVars, candVars, statVars>>

\* dataChannel.onopen, fired once per channel when the connection that the
\* applied answer made possible is up: connection connected, transfer
\* connecting, startFileSending
ChannelOpens ==
  /\ sChan = "new"
  /\ registered
  /\ signalingState = "stable"
  /\ iceState = "connected"
  /\ sChan' = "open"
  /\ sConn' = "connected"
  /\ sStatus' = "transferring"
  /\ pumps' = Started(pumps)
  /\ metaSends' = metaSends + 1
  /\ UNCHANGED <<signalingState, srd, answersLeft, chunkSends, answerRejected>>
  /\ UNCHANGED <<fileSize, flagged, share, s2r, r2s, retried, timedOut, mgrVars,
                 sProgress, sConfirmed, transferPaused, pausedTransferId,
                 iceState, iceFailureCount, spc, offset, chunksSent,
                 totalChunks, sendBuf, receiverVars>>
  /\ UNCHANGED <<sigVars, apiVars, joinVars, advVars, pairVars, candVars, statVars>>

\* one run of startFileSending hands its next chunk to the channel
PumpSends ==
  /\ \E i \in 1..Len(pumps) :
       /\ pumps[i] < PairChunks
       /\ chunkSends' = [chunkSends EXCEPT ![pumps[i]] = @ + 1]
       /\ pumps' = [pumps EXCEPT ![i] = @ + 1]
  /\ UNCHANGED <<signalingState, srd, answersLeft, metaSends, answerRejected>>
  /\ UNCHANGED <<coreVars, sigVars, apiVars, joinVars, advVars, pairVars, candVars, statVars>>

AnswerNext ==
  \/ SelectFile
  \/ IceEvent
  \/ HandleAnswer
  \/ HandleAnswerSettles
  \/ ChannelOpens
  \/ PumpSends

AnswerInit == Init /\ fileSize = PairChunks * ChunkSize /\ ~flagged

AnswerSpec == AnswerInit /\ [][AnswerNext]_vars

\* ---- a long transfer: the receiver's progress feedback --------------------------
\* A file of FeedbackChunks chunks: one chunk is less than one percent of it.
\* The two sides run in step: a message leaves the sender's buffer when the
\* receiver has taken the one before it, and the receiver takes a chunk when
\* the sender has taken the feedback before it.
PacedTransmit == s2r = <<>> /\ Transmit

PacedReceive == r2s = <<>> /\ ReceiverOnMessage

FeedbackNext ==
  \/ SelectFile
  \/ SharePost
  \/ IceStateChange("connected")
  \/ SenderOnOpen
  \/ EncodeDone
  \/ BufferedAmountLow
  \/ DrainDone
  \/ PacedTransmit
  \/ ReceiverOnOpen
  \/ PacedReceive
  \/ SenderOnMessage

FeedbackInit ==
  /\ Constructed
  /\ kvConfigured = TRUE
  /\ postsFail = FALSE
  /\ heldPinHash = ""
  /\ fileName = <<>>
  /\ fileSize = FeedbackChunks * ChunkSize
  /\ flagged = FALSE

FeedbackSpec == FeedbackInit /\ [][FeedbackNext]_vars

\* ---- specification --------------------------------------------------------------
Next ==
  \/ SelectFile
  \/ HandleCloseShare
  \/ ReceiverOnOpen
  \/ ReceiverOnError
  \/ ReceiverOnClose
  \/ SharePost
  \/ SenderOnOpen
  \/ PauseWake
  \/ EncodeDone
  \/ BufferedAmountLow
  \/ DrainDone
  \/ Transmit
  \/ SenderOnMessage
  \/ SenderOnError
  \/ SenderOnClose
  \/ IceEvent
  \/ ReceiverOnMessage
  \/ UserDecides

Spec == Init /\ [][Next]_vars

\* the manager used without the page's cleanup(): the chunk worker runs
\* while the pump sends
WorkerNext ==
  \/ CreateSender
  \/ SharePost
  \/ IceEvent
  \/ SenderOnOpen
  \/ EncodeDone
  \/ WorkerAnswers
  \/ WorkerTimeout
  \/ WorkerError
  \/ BufferedAmountLow
  \/ DrainDone
  \/ Transmit
  \/ ReceiverOnOpen
  \/ ReceiverOnMessage
  \/ SenderOnMessage

WorkerInit == Init /\ ~flagged

WorkerSpec == WorkerInit /\ [][WorkerNext]_vars

\* ---- properties ---------------------------------------------------------------
\* the receiver's transfer for this peer connection (find(t => t.peer === pc))
RecvCompleted == rTransfers # <<>> /\ rTransfers[1].status = "completed"

RecvFile == rTransfers[1].file

\* C1: a session paused for approval and resumed rebuilds the same file as an
\* unpaused one: every chunk, including those buffered while approval was
\* pending, is in the rebuilt file exactly once and in its original position.
C1_PausedFileIdentical ==
  (flagged /\ RecvCompleted) => RecvFile = FileChunks(fileSize)

\* C2: the receiver is completed exactly when chunksReceived equals the
\* announced chunkCount: never with fewer, and always once that many chunks
\* have been taken in; the announced count does not change.
C2_CompleteIffAllChunks ==
  /\ RecvCompleted => chunksReceived = expectedChunks
  /\ receivedFile => expectedChunks = totalChunks
  /\ (receivedFile /\ rpc = "idle" /\ rTransfers # <<>>
        /\ chunksReceived = expectedChunks) => RecvCompleted

\* C3: chunkCount = ceil(N/C), the sender sends that many chunks of size C
\* (the last one N mod C when non-zero), and a completed receiver holds a
\* file of exactly N bytes.
C3_ChunkCountAndLength ==
  /\ spc # "idle" => totalChunks = CeilDiv(fileSize, ChunkSize)
  /\ CeilDiv(10000000, 16384) = 611
  /\ \A i \in 1..Len(sendBuf \o s2r) :
       LET m == (s2r \o sendBuf)[i] IN
       m.type = "chunk" =>
         m.len = IF m.a < totalChunks - 1 \/ fileSize % ChunkSize = 0
                 THEN ChunkSize ELSE fileSize % ChunkSize
  /\ spc = "done" => chunksSent = totalChunks
  /\ RecvCompleted => SumLen(RecvFile) = fileSize

\* C4: a completed sender transfer stays completed across a data-channel
\* close, a data-channel error and an ICE 'failed' event.
C4_CompletedNotDowngraded ==
  [][(sStatus = "completed"
        /\ (SenderOnError \/ SenderOnClose \/ IceStateChange("failed")))
       => sStatus' = "completed"]_vars

\* C4 witness: the channel closed after completion (onclose left the
\* connection status alone, which it does only for a completed transfer).
C4_Witness ==
  sStatus = "completed" /\ sChan = "closed" /\ sConn = "connected"

\* C5: the sender's progress never decreases.
C5_ProgressMonotone == [][LeqPct(sProgress, sProgress')]_vars

\* C6: the sender's progress is above 95 only after a progress-sync that
\* reported chunksReceived = totalChunks.
C6_NoSelfReportAbove95 == LtPct(<<95, 1>>, sProgress) => sConfirmed

\* C7: the sender becomes completed only with all chunkCount chunks handed
\* to the channel and bufferedAmount drained to 0, and that step sets
\* progress to 100.
C7_CompletedOnlyWhenDrained ==
  [][(sStatus # "completed" /\ sStatus' = "completed")
       => /\ chunksSent' = totalChunks'
          /\ offset' = fileSize'
          /\ BufferedAmount' = 0
          /\ sProgress' = Hundred]_vars

\* C7 witness: a file of several chunks was sent and the sender completed.
C7_Witness == sStatus = "completed" /\ spc = "done" /\ chunksSent >= 2

\* C8: bufferedAmount never exceeds maxBufferedAmount, and a pump suspended
\* for backpressure resumes only with bufferedAmount at or below the
\* low-water mark.
C8_Backpressure ==
  /\ [](BufferedAmount <= MaxBufferedAmount)
  /\ [][(spc \in {"waitBuf1", "waitBuf2"} /\ spc' # spc)
          => BufferedAmount <= lowThreshold]_vars

\* C8 witness: the pump is suspended in sendWithBackpressure and the buffer
\* has drained to the low-water mark, so the held-back chunk goes out next.
C8_Witness == spc = "waitBuf2" /\ BufferedAmount <= lowThreshold

\* C9: a zero-byte file gets a share record, announces chunkCount 0, sends no
\* chunk, and both sides complete right after the metadata exchange.
C9_ZeroByteFile ==
  (fileSize = 0 /\ share # "none") =>
     /\ share = "created"
     /\ spc # "idle" => totalChunks = 0
     /\ \A i \in 1..Len(sendBuf \o s2r) : (sendBuf \o s2r)[i].type # "chunk"
     /\ spc \in {"idle", "drain", "done"}
     /\ (receivedFile /\ rpc = "idle") => RecvCompleted

\* C10: after the receiver's rejection the sender transfer is cancelled and
\* no later event turns it into failed.
C10_CancelledStays == [][sStatus = "cancelled" => sStatus' # "failed"]_vars

\* the sender has handled transfer-pause and not yet transfer-resume
SenderPaused == transferPaused /\ pausedTransferId = TransferId

\* C11: between the handling of transfer-pause and of transfer-resume the
\* pump hands no chunk to the channel and does not close the channel; every
\* chunk it hands over is the one at the offset reached, so that after the
\* resume each remaining chunk goes out exactly once.
C11_PausedPumpSendsNothing ==
  /\ [][SenderPaused => chunksSent' = chunksSent]_vars
  /\ [][(SenderPaused /\ (PauseWake \/ EncodeDone \/ BufferedAmountLow \/ DrainDone))
          => sChan' = sChan]_vars
  /\ [][chunksSent' # chunksSent
          => /\ chunksSent' = chunksSent + 1
             /\ offset' = offset + SliceLen(offset)
             /\ sendBuf'[Len(sendBuf')].a = chunksSent]_vars

\* the ICE handler runs for 'failed' and takes its retry branch
IceRetry ==
  /\ IceStateChange("failed")
  /\ sStatus # "completed"
  /\ RetryAllowed(iceFailureCount + 1)

\* C12: an ICE failure before completion is answered by one relay-only retry;
\* a session retries at most once, and a failure after the retry makes the
\* transfer failed.
C12_AtMostOneRetry ==
  /\ [][IceRetry => ~retried]_vars
  /\ [][(IceStateChange("failed") /\ retried /\ sStatus # "completed")
          => sStatus' = "failed"]_vars

\* Scheduling: the event loop runs every handler whose event is pending and
\* every continuation whose await has settled, and the transport delivers
\* what is queued on an open channel.  ICE state changes, channel errors and
\* the users' choices are the environment's and carry no fairness.
FairSpec ==
  /\ Spec
  /\ WF_vars(SharePost)
  /\ WF_vars(SenderOnOpen)
  /\ WF_vars(PauseWake)
  /\ WF_vars(EncodeDone)
  /\ WF_vars(BufferedAmountLow)
  /\ WF_vars(DrainDone)
  /\ WF_vars(Transmit)
  /\ WF_vars(SenderOnMessage)
  /\ WF_vars(SenderOnClose)
  /\ WF_vars(ReceiverOnOpen)
  /\ WF_vars(ReceiverOnMessage)
  /\ WF_vars(ReceiverOnClose)

\* C13: an ICE failure before completion that is not followed by a
\* connected ICE state leads to sender status failed (unless the transfer
\* completed, was cancelled, or the session was closed by the user).
C13_IceFailedLeadsToFailed ==
  (iceState = "failed" /\ sStatus # "completed")
    ~> (sStatus \in {"failed", "completed", "cancelled"}
          \/ iceState = "connected" \/ ~registered)

\* the receiver's transfer is in progress
RecvInProgress == rTransfers # <<>> /\ rTransfers[1].status = "transferring"

\* C14 (sender): the channel closed under a transfer in progress that the
\* user has not closed
C14_SenderLoss ==
  (sChan = "closed" /\ registered /\ sStatus \in {"transferring", "pending-approval"})
    ~> (sStatus \in {"failed", "completed", "cancelled"} \/ ~registered)

\* C14 (receiver): the channel closed under a transfer in progress
C14_ReceiverLoss ==
  (rChan = "closed" /\ RecvInProgress) ~> ~RecvInProgress

\* C14: a data channel that errors or closes under a transfer in progress
\* leaves that side's transfer failed, on the sender and on the receiver.
C14_ChannelLossLeadsToFailed == C14_SenderLoss /\ C14_ReceiverLoss

\* the status changes the sender's state machine admits; a transfer is
\* created pending, and onopen passes through connecting to transferring
\* within one handler run
StatusStep(a, b) ==
  \/ a = "none" /\ b = "pending"
  \/ a = "pending" /\ b \in {"connecting", "transferring"}
  \/ a = "connecting" /\ b = "transferring"
  \/ a = "transferring" /\ b \in {"pending-approval", "completed"}
  \/ a = "pending-approval" /\ b = "transferring"
  \/ a \in {"connecting", "transferring", "pending-approval"}
       /\ b \in {"cancelled", "failed"}

\* C15 (terminal part): a cancelled or failed transfer keeps its status
C15_TerminalStays ==
  [][(sStatus \in {"cancelled", "failed"}) => sStatus' = sStatus]_vars

\* C15: the sender's status changes only along pending -> connecting ->
\* transferring <-> pending-approval -> completed, with cancelled and failed
\* entered from connecting, transferring or pending-approval and never left.
C15_StatusTransitions ==
  /\ [][sStatus' # sStatus => StatusStep(sStatus, sStatus')]_vars
  /\ C15_TerminalStays

\* C19: when cleanup() returns, close() has been called on the data channel
\* and the peer connection the manager held, the connections and transfers
\* maps are empty, the chunk worker is terminated and pendingChunks is empty.
C19_CleanupTearsDown ==
  /\ [][HandleCloseShare
          => /\ sChan' \in {"closing", "closed"}
             /\ iceState' = "closed"
             /\ ~registered'
             /\ chunkWorker' = "null"
             /\ pendingChunks' = {}]_vars
  /\ [][SelectFile => (chunkWorker' = "null" /\ pendingChunks' = {})]_vars

\* C19 witness: cleanup() ran under a transfer in progress on an open channel.
C19_Witness ==
  /\ ~registered
  /\ sStatus \in {"transferring", "pending-approval"}
  /\ sChan = "closing"
  /\ iceState = "closed"
  /\ chunkWorker = "null"

\* C16: a candidate of the receiver that the sender takes from its mailbox is
\* added to the sender's peer connection, whether it comes before or after
\* the answer.
C16_CandidateNotLost == registered => sDrained \subseteq sApplied

\* C17: once a poll loop's 5-minute timer has fired the loop issues no
\* further poll request (pollCount / attempts count the requests).
C17_PollStopsAfterTimer ==
  /\ [][sTimer = "fired" => pollCount' = pollCount]_vars
  /\ [][rTimer = "fired" => attempts' = attempts]_vars

\* C17 witness: both timers fired under running loops, and both loops have
\* come to rest short of the cap on requests.
C17_Witness ==
  /\ sTimer = "fired" /\ sPoll = "stopped" /\ pollCount \in 1..(MaxPolls - 1)
  /\ rTimer = "fired" /\ rPoll = "stopped" /\ attempts \in 1..(MaxPolls - 1)

\* the share dialog of a created share has been closed
SessionClosed == share = "created" /\ ~registered

\* C18: after the session is closed no further poll request is issued for
\* its transfer id.
C18_CloseStopsPolling == [][SessionClosed => pollCount' = pollCount]_vars

\* C20: no envelope is returned by more than one GET.
C20_DeliveredAtMostOnce == \A e \in Envelopes : delivered[e] <= 1

\* C20 witness: the answer has been returned by a GET, and a further GET for
\* the same id is under way with new messages waiting.
C20_Witness ==
  /\ delivered[Envelope("answer", ConnectionId, TransferId, 0)] = 1
  /\ signals[TransferId] # <<>>
  /\ sPoll = "requested"

\* ---- C21: an unread envelope stays until it is an hour old -------------------
InMailbox(m) ==
  \E k \in 1..Len(signals[m.env.receiverId]) : signals[m.env.receiverId][k] = m

\* C21: every envelope that was posted, has not been returned by a GET and is
\* less than an hour old is in its mailbox (so that a GET made then returns
\* it), whatever other envelopes were posted to the mailbox before it and
\* whichever of their clean-up timers have fired.
C21_UnreadKeptForAnHour ==
  \A m \in unread : now - m.postedAt < HourTicks => InMailbox(m)

\* ---- C22: an expired share record is never served -------------------------------
\* C22: a GET for a share record made more than the 15-minute TTL after the
\* record's creation answers expired or not found and carries no payload,
\* whatever POST, GET and PUT requests came before it.
C22_ExpiredNeverServed ==
  (/\ resp.op = "share GET"
   /\ resp.id # 0
   /\ issued[resp.id] # None
   /\ resp.at - issued[resp.id].createdAt > ExpiryTicks)
  => (resp.status \in {"expired", "notfound"} /\ resp.body = None)

\* C22 witness: a GET answered expired while the KV backend still holds the
\* record, its TTL having been renewed by a PUT after creation.
C22_Witness ==
  /\ resp.op = "share GET"
  /\ resp.status = "expired"
  /\ kvConfigured
  /\ kvStore[resp.id] # None
  /\ resp.at < kvStore[resp.id].expiresAt

\* ---- C23: share record round trip ------------------------------------------------
\* the fields of the round trip
SameRecord(a, b) ==
  /\ a.transferId = b.transferId
  /\ a.offer = b.offer
  /\ a.fileName = b.fileName
  /\ a.fileSize = b.fileSize
  /\ a.senderHasVpn = b.senderHasVpn
  /\ a.pinHash = b.pinHash

\* C23: a GET by a short id that a successful POST returned, made before the
\* TTL has elapsed, returns the transferId, offer, fileName, fileSize, sender
\* flags and pinHash that were posted, the pinHash as last modified by a
\* successful PUT; a GET by a short id that was never issued answers not found.
C23_RoundTrip ==
  (resp.op = "share GET" /\ resp.id # 0) =>
    IF issued[resp.id] = None
    THEN resp.status = "notfound"
    ELSE resp.at - issued[resp.id].createdAt < ExpiryTicks
           => (resp.status = "ok" /\ SameRecord(resp.body, issued[resp.id]))

\* ---- C26: rejected requests and the stores ---------------------------------------
\* a request was rejected by validation in this step
Rejected ==
  /\ resp' # resp
  /\ resp'.op \in {"share POST", "signal POST"}
  /\ ~resp'.valid

\* a record of an instance's store that has not expired
Live(i, id) ==
  /\ transferStore[i][id] # None
  /\ ~Expired(now - transferStore[i][id].createdAt)

\* C26 as stated: a share POST without transferId, offer, fileName or
\* fileSize, and a signal POST without senderId, receiverId or type, answer
\* with an error and add or change no stored record and no mailbox entry.
C26_RejectedChangesNothing ==
  [][Rejected => (/\ resp'.status = "400"
                  /\ transferStore' = transferStore
                  /\ kvStore' = kvStore
                  /\ signals' = signals)]_vars

\* C26 amended: such a request answers with an error, adds no record and no
\* mailbox entry, and changes no mailbox entry and no record that has not
\* expired (a rejected share POST still purges the expired records).
C26_RejectedChangesNothingLive ==
  [][Rejected =>
       (/\ resp'.status = "400"
        /\ kvStore' = kvStore
        /\ signals' = signals
        /\ \A i \in Instances, id \in ShortIds :
             /\ Live(i, id) => transferStore'[i][id] = transferStore[i][id]
             /\ transferStore'[i][id] # None
                  => transferStore'[i][id] = transferStore[i][id])]_vars

\* C26 witness: a share POST has been rejected while the store holds a record.
C26_Witness ==
  /\ resp.op = "share POST"
  /\ ~resp.valid
  /\ \E id \in ShortIds : transferStore[1][id] # None /\ resp.at = now

\* ---- C24: PIN gate -----------------------------------------------------------------
\* the joining side acts in this step: the receiver connection is created
\* and answered, or a signaling message of the receiver is posted
Joins ==
  \/ rStage = "none" /\ rStage' # "none"
  \/ \E e \in posts' \ posts : e.senderId = ConnectionId

\* C24: when the held share record carries a pinHash, the joining side
\* creates its connection, answers the offer and posts signaling messages
\* only if the SHA-256 of the entered PIN equals the pinHash; an empty PIN
\* and a PIN with another hash are stopped before any of that.
C24_PinGate ==
  [][(heldPinHash # "" /\ Joins)
       => (pinInput # "" /\ Sha256Hex(pinInput) = heldPinHash)]_vars

\* C24 witness: the PIN was set to "4821", "4820" was entered and verified:
\* Incorrect PIN, and the receiver has not joined.
C24_Witness ==
  /\ heldPinHash = Sha256Hex("4821")
  /\ pinInput = "4820"
  /\ pinError = "Incorrect PIN"
  /\ rStage = "none"
  /\ posts = {}

\* ---- C25: security advisor rules ---------------------------------------------------
\* the position of the last dot of a name, 0 when it has none
LastDot(name) ==
  IF \E k \in 1..Len(name) : name[k] = "."
  THEN CHOOSE k \in 1..Len(name) :
         name[k] = "." /\ \A j \in (k + 1)..Len(name) : name[j] # "."
  ELSE 0

\* the extension of a name: what follows its last dot (none without a dot)
Extension(name) ==
  IF LastDot(name) = 0 THEN <<"no extension">>
  ELSE SubSeq(name, LastDot(name) + 1, Len(name))

\* the name without its extension
Stem(name) ==
  IF LastDot(name) = 0 THEN name ELSE SubSeq(name, 1, LastDot(name) - 1)

\* the rule set as stated, first match wins
Advisory(name) ==
  LET lower == ToLowerCase(name) IN
  IF Extension(lower) = <<"e", "x", "e">>
     /\ Extension(Stem(lower)) \in DisguiseExtensions
  THEN "caution"
  ELSE IF Extension(lower) \in HighRiskExtensions THEN "info"
  ELSE IF \/ \E k \in 1..(Len(name) - 2) :
               name[k] = "%" /\ HexDigit(name[k + 1]) /\ HexDigit(name[k + 2])
          \/ \E k \in 1..Len(name) :
               name[k] \in {"U+200B", "U+200C", "U+200D", "U+FEFF"}
          \/ \E k \in 1..(Len(name) - 2) :
               \/ \A j \in k..(k + 2) : WhiteSpace(name[j])
               \/ \A j \in k..(k + 2) : name[j] = "."
  THEN "info"
  ELSE "none"

\* C25: the advisory of a file name is the one of the ordered rule set, first
\* match wins: disguise extension followed by .exe (case-insensitive) gives
\* caution; a high-risk extension gives info; a percent-encoded sequence, a
\* zero-width or BOM character, or a run of three spaces or dots gives info;
\* otherwise none.  invoice.pdf.exe gives caution, archive.zip gives none.
C25_AdvisoryByRules ==
  advisory # "unchecked" =>
    /\ advisory = Advisory(fileName)
    /\ fileName = InvoicePdfExe => advisory = "caution"
    /\ fileName = ArchiveZip => advisory = "none"

\* C25 witness: a disguised executable with a zero-width character in its
\* name has been classified as caution, the first rule winning over the third.
C25_Witness ==
  /\ advisory = "caution"
  /\ hasObfuscatedName(fileName)

\* ---- C28: a failed poll is swallowed ------------------------------------------------
\* a poll of the sender page / of the receiver page fails in this step
SenderPollFails ==
  sPoll = "requested" /\ sPoll' # "requested" /\ pollFailure' = "sender"

ReceiverPollFails ==
  rPoll = "requested" /\ rPoll' # "requested" /\ pollFailure' = "receiver"

\* C28: a poll that fails (network error or response not ok) changes no
\* transfer or connection status and nothing else of the session or of what
\* the pages show, and the next poll is scheduled: on the sender page unless
\* the loop has been stopped, on the receiver page always (a stopped loop
\* ends in the poll scheduled).
C28_FailedPollSwallowed ==
  /\ [][SenderPollFails =>
          (/\ UNCHANGED <<coreVars, joinVars, isPolling, sTimer>>
           /\ isPolling => sPoll' = "scheduled")]_vars
  /\ [][ReceiverPollFails =>
          (/\ UNCHANGED <<coreVars, joinVars, icePolling, rTimer>>
           /\ rPoll' = "scheduled")]_vars

\* C28 witness: a poll of the sender page failed under a running loop, and
\* the loop has issued its next request.
C28_Witness ==
  /\ pollFailure = "sender"
  /\ isPolling
  /\ sPoll = "requested"
  /\ pollCount >= 2

\* ---- C29: one Transfer record per receiver connection -----------------------------
\* C29: the receiver's manager holds at most one Transfer record for its peer
\* connection in every reachable state, also after a flagged file has been
\* approved (so that progress and completion apply to the one record).
C29_OneTransferPerConnection == Len(rTransfers) <= 1

\* ---- C30: completion after approval ---------------------------------------------------
\* the user has approved the flagged file
Approved == flagged /\ receivedFile /\ ~transferPendingApproval /\ rTransfers # <<>>

\* C30: once the user has approved a flagged file and all of its chunks
\* (at least one) have been delivered to the receiver, the receiver's
\* transfer is eventually completed, also when every chunk arrived and was
\* buffered before the approval.
C30_ApprovedLeadsToCompleted ==
  (Approved /\ expectedChunks > 0 /\ chunksReceived = expectedChunks)
    ~> RecvCompleted

ControlMessageHandled ==
  /\ SenderOnMessage
  /\ Head(r2s).type \in {"transfer-pause", "transfer-resume", "transfer-cancel"}

\* C31: a transfer-pause, transfer-resume or transfer-cancel that the sender
\* handles after it has marked the transfer completed leaves the status
\* completed.
C31_CompletedAbsorbsControl ==
  [][(sStatus = "completed" /\ ControlMessageHandled)
       => sStatus' = "completed"]_vars

\* ---- C32: the pump ends after a rejection -------------------------------------------
\* C32: when transfer-cancel has been handled while the pump waits on the
\* pause flag, the pump leaves its wait loop and returns (it does not wait
\* forever), and it hands no further chunk to the channel.
C32_CancelEndsPump ==
  /\ (spc = "paused" /\ sStatus = "cancelled") ~> (spc = "stopped")
  /\ [][(spc = "paused" /\ sStatus = "cancelled") => chunksSent' = chunksSent]_vars

C34_PumpRunsOnce ==
  /\ metaSends <= 1
  /\ Len(pumps) <= 1
  /\ \A k \in 0..(PairChunks - 1) : chunkSends[k] <= 1
  /\ (pumps # <<>> /\ pumps[1] = PairChunks)
       => (metaSends = 1 /\ \A k \in 0..(PairChunks - 1) : chunkSends[k] = 1)

\* C34 witness: the answer was handed over a second time with the channel
\* open and the pump running; the call was rejected and the pump has finished.
C34_Witness ==
  /\ answerRejected = "InvalidStateError"
  /\ answersLeft = 0
  /\ sChan = "open"
  /\ pumps # <<>>
  /\ pumps[1] = PairChunks

\* ---- C35: every candidate of the sender is forwarded once --------------------------
\* C35: every candidate the sender has produced is either still buffered for
\* its first post (or for a new post after one that failed), or has been
\* taken by the server exactly once: none is dropped, also when a post fails,
\* and none is posted twice.
C35_CandidateForwardedOnce ==
  \A n \in 1..sCandidates :
    \/ n \in pendingLocalCandidates /\ candPosts[n] = 0
    \/ n \notin pendingLocalCandidates /\ candPosts[n] = 1

\* C36: whenever the receiver holds all chunkCount chunks, a progress-sync
\* message with chunksReceived = totalChunks has been sent to the sender
\* (it is on its way or the sender has handled it).
FullSyncSent ==
  \/ sConfirmed
  \/ \E i \in 1..Len(r2s) : r2s[i].type = "progress-sync" /\ r2s[i].a = r2s[i].b

C36_FullReceiptConfirmed ==
  (receivedFile /\ expectedChunks > 0 /\ chunksReceived = expectedChunks) => FullSyncSent

\* C37: once the share record carries a pinHash (set by PUT /api/share or at
\* creation), a joining side that starts its connect phase has entered a PIN
\* whose SHA-256 equals the record's pinHash.
C37_PinEnforcedAfterPut ==
  [][(Joins /\ heldId # 0 /\ issued[heldId].pinHash # "none")
       => (pinInput # "" /\ Sha256Hex(pinInput) = issued[heldId].pinHash)]_vars

\* C38: after cleanup() has removed the sender's transfer, the manager reports
\* no further transfer-update for it: its status and progress stay as they
\* were when it was removed.
CleanedUpTransfer == ~registered /\ sStatus # "none"

C38_SilentAfterCleanup ==
  [][(CleanedUpTransfer /\ ~registered') => (sStatus' = sStatus /\ sProgress' = sProgress)]_vars

\* C39: counting is idempotent per transferId: the first accepted POST of a
\* transferId raises the total by one and answers counted true; every later
\* POST of the same transferId leaves the total alone and answers counted
\* false.
StatsCounted == memTotal + kvTotal

C39_CountedOncePerTransfer ==
  [][\A t \in Transfers :
       statPosts'[t] = statPosts[t] + 1
         => IF statPosts[t] = 0
            THEN StatsCounted' = StatsCounted + 1 /\ statsResp'.counted
            ELSE StatsCounted' = StatsCounted /\ ~statsResp'.counted]_vars

====
